---- MODULE Spec2Model ----
(***************************************************************************)
(* RC frame optimizer: StructureModel (topology, grouping, section         *)
(* assignment, solver model, analysis) and FrameOptimizer (fitness         *)
(* evaluation, generation callback, run).                                  *)
(*                                                                         *)
(* The elastic solver (anaStruct) and the GA engine (PyGAD) are external   *)
(* collaborators.  The solver is a deterministic black box: its result     *)
(* for an element is identified by the stiffness table it was built from.  *)
(***************************************************************************)
EXTENDS Integers, Sequences, FiniteSets, TLC

\* ------------------------------------------------------------------ bounds
MaxSpans == 2
MaxStories == 3
MaxGene == 1

\* ------------------------------------------------------- program constants
\* default section index used by build_anastruct_model for an unassigned member
DefaultSection == 30
\* beam span and story height used for every bay of the model grids (mm)
SpanLength == 6000
StoryHeight == 3500

\* Python None for ss (no solver model yet), for a forces value not yet returned
\* and for "no genotype decoded yet"
NoModel == [built |-> FALSE]
NoForces == [returned |-> FALSE]
NoGenes == <<>>

VARIABLES
    grid,             \* StructureModel.grid: [x_spans, z_heights]
    beam_groups,      \* StructureModel.beam_groups: group name -> beam ids
    column_groups,    \* StructureModel.column_groups: group name -> column ids
    beam_sections,    \* StructureModel.beam_sections: beam id -> section index
    column_sections,  \* StructureModel.column_sections: column id -> section index
    ss,               \* StructureModel.ss with _as_elem_map: None or the built solver model
    forces,           \* the value returned by the last analyze() call (None before)
    singular,         \* solver black box: the section indices whose stiffness makes solve() fail
    last_genes,       \* the genotype of the most recent set_sections_by_groups call
    redecode,         \* whether that call was the "first", repeated the "same" genotype or decoded an "other" one
    last_op,          \* the operation that produced the current state
    variant,          \* which FrameOptimizer: "src" (src/optimization) or "phase4"
    parallel,         \* run(parallel=...): fitness_func calls run in a thread pool
    weak,             \* solver black box: the section indices whose capacity the demand exceeds
    pm_cache,         \* SectionVerifier._pm_cache: the section indices that have a cached P-M curve
    pm_missed,        \* the section indices get_pm_curve did not find in the cache
    penalty_coeff,    \* FrameOptimizer.penalty_coeff, in thousandths
    current_gen_feasible,  \* FrameOptimizer._current_gen_feasible
    current_gen_total,     \* FrameOptimizer._current_gen_total
    evals,            \* the fitness_func calls of the population being evaluated
    run_pc,           \* where run() is
    num_generations,  \* run(num_generations=...)
    sol_per_pop,      \* run(sol_per_pop=...)
    population,       \* ga_instance.population
    elites,           \* ga_instance.last_generation_elitism with the fitness stored for it
    last_generation_fitness,  \* ga_instance.last_generation_fitness
    generations_completed,    \* ga_instance.generations_completed
    callback,         \* locals of on_generation while its best_solution() call runs
    fitness_history,  \* FrameOptimizer.fitness_history
    cost_history,     \* FrameOptimizer.cost_history
    feasible_ratio_history,   \* FrameOptimizer.feasible_ratio_history, as [feasible, total]
    best_recorded,    \* the highest fitness the engine recorded for an individual of a generation
    result,           \* what run() returned or raised
    seed_stream,      \* what the engine draws under random_seed, where the model fixes it
    held,             \* the OptimizationResult of an earlier run that the caller still holds
    call              \* the last call of a calculation function: its arguments and what it returned

topoVars == <<grid, beam_groups, column_groups>>
modelVars == <<topoVars, beam_sections, column_sections, ss, forces, singular, last_genes, redecode, last_op>>
evalVars == <<variant, parallel, weak, pm_cache, pm_missed, penalty_coeff, current_gen_feasible, current_gen_total, evals>>
runVars == <<run_pc, num_generations, sol_per_pop, population, elites, last_generation_fitness,
             generations_completed, callback, fitness_history, cost_history,
             feasible_ratio_history, best_recorded, result, seed_stream, held>>
calcVars == <<call>>
vars == <<modelVars, evalVars, runVars, calcVars>>

\* ------------------------------------------------------------------ helpers
RECURSIVE SumSeq(_)
SumSeq(s) == IF s = <<>> THEN 0 ELSE Head(s) + SumSeq(Tail(s))

Prefix(s, n) == [i \in 1..n |-> s[i]]

\* dict update `for k in ids: d[k] = v`
AssignAll(d, ids, v) ==
    [k \in (DOMAIN d) \cup ids |-> IF k \in ids THEN v ELSE d[k]]

\* dict.get(k, default)
Get(d, k, default) == IF k \in DOMAIN d THEN d[k] ELSE default

EmptyMap == [k \in {} |-> 0]

\* ------------------------------------------------------------------- GridInput
num_spans(g) == Len(g.x_spans)
num_stories(g) == Len(g.z_heights)
num_nodes(g) == (num_spans(g) + 1) * (num_stories(g) + 1)
num_beams(g) == num_spans(g) * num_stories(g)
num_columns(g) == (num_spans(g) + 1) * num_stories(g)

Grids ==
    { [x_spans |-> [i \in 1..n |-> SpanLength],
       z_heights |-> [j \in 1..m |-> StoryHeight]] :
        n \in 1..MaxSpans, m \in 1..MaxStories }

\* ------------------------------------------------------ StructureModel topology
\* the keys of self.beams and self.columns: elem_id runs from 1 over the beams
\* and continues over the columns
BeamIds(g) == 1..num_beams(g)
ColumnIds(g) == (num_beams(g) + 1)..(num_beams(g) + num_columns(g))

\* _generate_nodes: node_id counts up story by story, left to right
nodes(g) ==
    [id \in 1..num_nodes(g) |->
        LET story == (id - 1) \div (num_spans(g) + 1)
            col == (id - 1) % (num_spans(g) + 1)
        IN <<SumSeq(Prefix(g.x_spans, col)), SumSeq(Prefix(g.z_heights, story))>>]

\* _generate_elements, beam loop: the k-th iteration (k from 0) creates elem_id k+1
beams(g) ==
    [id \in BeamIds(g) |->
        LET n_cols == num_spans(g) + 1
            story == (id - 1) \div num_spans(g) + 1
            span == (id - 1) % num_spans(g)
            start_node == story * n_cols + span + 1
        IN <<start_node, start_node + 1>>]

\* _generate_elements, column loop: outer loop over column lines, inner over
\* stories; elem_id continues after the last beam
columns(g) ==
    [id \in ColumnIds(g) |->
        LET n_cols == num_spans(g) + 1
            k == id - num_beams(g) - 1
            col == k \div num_stories(g)
            story == k % num_stories(g)
            start_node == story * n_cols + col + 1
        IN <<start_node, start_node + n_cols>>]

MaxOf(S) == CHOOSE x \in S : \A y \in S : y <= x

\* _assign_groups, the group a column id is put in
ColumnGroupOf(g, col_id) ==
    LET n_cols == num_spans(g) + 1
        n_stories == num_stories(g)
        col_idx == IF BeamIds(g) # {} THEN col_id - MaxOf(BeamIds(g)) - 1 ELSE col_id - 1
        story == col_idx \div n_cols + 1
        col_line == col_idx % n_cols
        is_corner == (col_line = 0 \/ col_line = num_spans(g))
    IN IF story = 1 THEN "bottom"
       ELSE IF story = n_stories THEN "top"
       ELSE IF is_corner THEN "standard_corner"
       ELSE "standard_interior"

\* _assign_groups, the group a beam id is put in
BeamGroupOf(g, beam_id) ==
    LET story == (beam_id - 1) \div num_spans(g) + 1
    IN IF story = num_stories(g) THEN "roof" ELSE "standard"

assign_column_groups(g) ==
    [name \in {"bottom", "standard_corner", "standard_interior", "top"} |->
        {c \in ColumnIds(g) : ColumnGroupOf(g, c) = name}]

assign_beam_groups(g) ==
    [name \in {"standard", "roof"} |->
        {b \in BeamIds(g) : BeamGroupOf(g, b) = name}]

\* mutant: column ids counted story by story
get_column_id_ByStory(g, col_idx, story) ==
    num_spans(g) * num_stories(g) + story * (num_spans(g) + 1) + col_idx + 1

\* _get_column_id / _get_beam_id: the id of the member at (position, story), story from 0
get_column_id(g, col_idx, story) ==
    num_spans(g) * num_stories(g) + col_idx * num_stories(g) + story + 1

get_beam_id(g, span_idx, story) == story * num_spans(g) + span_idx + 1

\* ---------------------------------------------------------------- genotypes
Genes == 0..MaxGene
\* the genotypes decoded here: six genes, each the index 0 or one other index
Genotypes == UNION { [1..6 -> {0, v}] : v \in Genes \ {0} }

\* set_sections_by_groups: the two maps after decoding `genes` (len(genes) >= 6)
SetBeamSections(groups, bs, genes) ==
    LET s1 == AssignAll(bs, groups["standard"], genes[1])
    IN AssignAll(s1, groups["roof"], genes[2])

\* mutant: a decode that fills only the column ids that have no section yet
SetColumnSections_KeepExisting(groups, cs, genes) ==
    LET fresh(name) == groups[name] \ DOMAIN cs
        s1 == AssignAll(cs, fresh("bottom"), genes[3])
        s2 == AssignAll(s1, fresh("standard_corner"), genes[4])
        s3 == AssignAll(s2, fresh("standard_interior"), genes[5])
    IN AssignAll(s3, fresh("top"), genes[6])

SetColumnSections(groups, cs, genes) ==
    LET s1 == AssignAll(cs, groups["bottom"], genes[3])
        s2 == AssignAll(s1, groups["standard_corner"], genes[4])
        s3 == AssignAll(s2, groups["standard_interior"], genes[5])
    IN AssignAll(s3, groups["top"], genes[6])

\* ------------------------------------------------------------ solver model
Abs(x) == IF x < 0 THEN -x ELSE x

\* build_anastruct_model: elements are added story by story, the columns of the
\* story from left to right and then its beams; as_elem_id counts them from 1
AsIdOfColumn(g, col_idx, story) ==
    story * (2 * num_spans(g) + 1) + col_idx + 1

AsIdOfBeam(g, span_idx, story) ==
    story * (2 * num_spans(g) + 1) + (num_spans(g) + 1) + span_idx + 1

\* the member that solver element `a` is: position `a` in the order of the loops
ElementAt(g, a) ==
    LET per_story == 2 * num_spans(g) + 1
        story == (a - 1) \div per_story
        r == (a - 1) % per_story
    IN IF r <= num_spans(g)
       THEN [kind |-> "column", elem_id |-> get_column_id(g, r, story)]
       ELSE [kind |-> "beam", elem_id |-> get_beam_id(g, r - num_spans(g) - 1, story)]

\* _as_elem_map: member id -> solver element id
AsElemMap(g) ==
    [id \in BeamIds(g) \cup ColumnIds(g) |->
        IF id \in BeamIds(g)
        THEN AsIdOfBeam(g, (id - 1) % num_spans(g), (id - 1) \div num_spans(g))
        ELSE LET k == id - num_beams(g) - 1
             IN AsIdOfColumn(g, k \div num_stories(g), k % num_stories(g))]

\* the solver model built from the assignment (bs, cs): per solver element the
\* member kind and section index that give its EI and EA, the id map, the
\* fixed supports and the loaded elements
BuildAnastructModel(g, bs, cs) ==
    [ built |-> TRUE,
      elements |->
        [a \in 1..(num_beams(g) + num_columns(g)) |->
            LET e == ElementAt(g, a)
            IN [kind |-> e.kind,
                sec_idx |-> IF e.kind = "column"
                            THEN Get(cs, e.elem_id, DefaultSection)
                            ELSE Get(bs, e.elem_id, DefaultSection)]],
      as_elem_map |-> AsElemMap(g),
      supports |-> {col_idx * 2 + 1 : col_idx \in 0..num_spans(g)},
      q_loads |-> {AsElemMap(g)[b] : b \in BeamIds(g)} ]

\* ss.solve() raises when the stiffness matrix is singular
SolveFails(model, sing) ==
    \E a \in DOMAIN model.elements : model.elements[a].sec_idx \in sing

\* analyze(), after solve(): one ElementForces per member that has a solver
\* element; what ss.get_element_results(as_elem_id) answers is identified by
\* the solved frame and the element asked for
AnalyzeForces(g, model) ==
  [returned |-> TRUE,
   frame |-> model.elements,
   members |->
    [id \in {m \in ColumnIds(g) \cup BeamIds(g) : m \in DOMAIN model.as_elem_map} |->
        LET ends == IF id \in ColumnIds(g) THEN columns(g)[id] ELSE beams(g)[id]
            p1 == nodes(g)[ends[1]]
            p2 == nodes(g)[ends[2]]
        IN [element_id |-> id,
            element_type |-> IF id \in ColumnIds(g) THEN "column" ELSE "beam",
            length |-> Abs(p2[1] - p1[1]) + Abs(p2[2] - p1[2]),
            as_elem_id |-> model.as_elem_map[id]]]]

\* ------------------------------------------------------------ SectionDatabase
\* _generate_all: idx counts up over b in range(200, 550, 50), h in range(300, 850, 50)
SectionCount == 77
SectionB(idx) == 200 + 50 * ((idx % SectionCount) \div 11)
SectionH(idx) == 300 + 50 * ((idx % SectionCount) % 11)
\* get_by_index(idx)['A']
SectionA(idx) == SectionB(idx) * SectionH(idx)

\* self.sections as _generate_all fills it: keys 0, 1, ... in loop order
Sections ==
    [k \in 0 .. SectionCount - 1 |->
        [b |-> 200 + 50 * (k \div 11), h |-> 300 + 50 * (k % 11)]]

\* mutant: the index is used as the key without the modulo
get_by_index_NoWrap(idx) ==
    IF idx \in DOMAIN Sections
    THEN [raised |-> FALSE, section |-> Sections[idx]]
    ELSE [raised |-> TRUE, error |-> "KeyError"]

\* get_by_index(idx): self.sections[idx % len(self.sections)]; Python's % has
\* the sign of the divisor, as % has here
get_by_index(idx) ==
    LET key == idx % Cardinality(DOMAIN Sections)
    IN IF key \in DOMAIN Sections
       THEN [raised |-> FALSE, section |-> Sections[key]]
       ELSE [raised |-> TRUE, error |-> "KeyError"]

\* get_by_index(idx)['cost_per_m'] in 0.01 yuan, as _calc_cost rounds it.
\* "src": (b*h*1e-6*600 + 0.015*b*h*7.85e-3*6.0 + (b+2h)/1000*100) * 1.4
\*        = k * 457.275 + 14 * (b + 2h) hundredths, k = (b/50)*(h/50); of the
\*        exact halves only k = 100 and k = 140 come out below in floating point.
\* "phase4": b*h*1e-6*500 + 0.015*b*h*7.85e-3*5.5 + (b+2h)/1000*50
\*        = k * (286 + 29/32) + 5 * (b + 2h) hundredths; the exact halves
\*        (k = 16 mod 32) come out below.
CostPerM(db, idx) ==
    LET b == SectionB(idx)
        h == SectionH(idx)
        k == (b \div 50) * (h \div 50)
    IN IF db = "src"
       THEN (k * 457275 + (IF k \in {100, 140} THEN 499 ELSE 500)) \div 1000 + 14 * (b + 2 * h)
       ELSE 286 * k + (k * 29 + 15) \div 32 + 5 * (b + 2 * h)

\* calculate_cost(genes) in 0.001 yuan: cost per metre times the mean member
\* length (here in 0.1 m) times the number of members of the group;
\* cost_per_m(idx) is self.db.get_by_index(idx)['cost_per_m']
CostOnDatabase(cost_per_m(_), g, bgroups, cgroups, genes) ==
    LET avg_beam_length == (SumSeq(g.x_spans) \div Len(g.x_spans)) \div 100
        avg_col_length == (SumSeq(g.z_heights) \div Len(g.z_heights)) \div 100
    IN cost_per_m(genes[1]) * avg_beam_length * Cardinality(bgroups["standard"])
       + cost_per_m(genes[2]) * avg_beam_length * Cardinality(bgroups["roof"])
       + cost_per_m(genes[3]) * avg_col_length * Cardinality(cgroups["bottom"])
       + cost_per_m(genes[4]) * avg_col_length * Cardinality(cgroups["standard_corner"])
       + cost_per_m(genes[5]) * avg_col_length * Cardinality(cgroups["standard_interior"])
       + cost_per_m(genes[6]) * avg_col_length * Cardinality(cgroups["top"])

\* mutant: the top columns are left out of the total
calculate_cost_NoTopColumns(db, g, bgroups, cgroups, genes) ==
    CostOnDatabase(LAMBDA idx : CostPerM(db, idx), g, bgroups,
                   [cgroups EXCEPT !["top"] = {}], genes)

calculate_cost(db, g, bgroups, cgroups, genes) ==
    CostOnDatabase(LAMBDA idx : CostPerM(db, idx), g, bgroups, cgroups, genes)

\* ------------------------------------------------------------ SectionVerifier
\* penalties are in thousandths, rounded down
\* verify_all_elements falls back to these indices for a member without section
VerifyDefaultBeam == 30
VerifyDefaultColumn == 40

\* check_beam_capacity / check_column_capacity on the solver's forces: the
\* demand of a member exceeds the capacity exactly of the sections in `wk`,
\* and then by half the capacity (demand / capacity - 1 = 0.5)
OverstressPenalty == 500
MemberPenalty(sec_idx, wk) == IF sec_idx \in wk THEN OverstressPenalty ELSE 0

RECURSIVE SumFn(_)
SumFn(f) ==
    IF DOMAIN f = {} THEN 0
    ELSE LET k == CHOOSE x \in DOMAIN f : TRUE
         IN f[k] + SumFn([x \in (DOMAIN f) \ {k} |-> f[x]])

\* mutant: the columns are left out of the sum
verify_all_elements_BeamsOnly(f, bs, cs, wk) ==
    SumFn([id \in {m \in DOMAIN f.members : f.members[m].element_type = "beam"} |->
            MemberPenalty(Get(bs, id, VerifyDefaultBeam), wk)])

\* verify_all_elements(forces, beam_sections, col_sections)[0]
verify_all_elements(f, bs, cs, wk) ==
    SumFn([id \in DOMAIN f.members |->
            IF f.members[id].element_type = "beam"
            THEN MemberPenalty(Get(bs, id, VerifyDefaultBeam), wk)
            ELSE MemberPenalty(Get(cs, id, VerifyDefaultColumn), wk)])

\* mutant: the taper rule is left out
check_topology_constraints_NoTaper(genes) ==
    IF Len(genes) < 6 THEN 0
    ELSE LET A_beam == SectionA(genes[1])
             A_bottom == SectionA(genes[3])
         IN IF 10 * A_bottom < 8 * A_beam
            THEN (1600 * A_beam - 2000 * A_bottom) \div A_beam
            ELSE 0

\* check_topology_constraints(genes, grid): 0.0 for fewer than six genes
check_topology_constraints(genes) ==
    IF Len(genes) < 6 THEN 0
    ELSE
    LET A_beam == SectionA(genes[1])
        A_bottom == SectionA(genes[3])
        A_top == SectionA(genes[6])
        \* ratio < 0.8: (0.8 - ratio) * 2.0
        weak_column == IF 10 * A_bottom < 8 * A_beam
                       THEN (1600 * A_beam - 2000 * A_bottom) \div A_beam
                       ELSE 0
        \* top column larger than bottom column: (A_top / A_bottom - 1.0) * 1.5
        top_heavy == IF A_top > A_bottom
                     THEN (1500 * (A_top - A_bottom)) \div A_bottom
                     ELSE 0
    IN weak_column + top_heavy

\* -------------------------------------------------------------------- fitness
\* a fitness value 1 / (F + 1e-9), F = cost * (1 + penalty_coeff * penalty)^2,
\* is kept as cost and x = 1000 * (1 + penalty_coeff * penalty); the value
\* returned for a failed evaluation is 1e-12
CoeffScale == 1000
NoFitness == [status |-> "none", cost |-> 0, x |-> 0]
FailedFitness == [status |-> "failed", cost |-> 0, x |-> 0]
OkFitness(cost, coeff, penalty) ==
    [status |-> "ok", cost |-> cost, x |-> CoeffScale + (coeff * penalty) \div CoeffScale]

\* a / b <= c / d for positive b, d, by continued fractions (no product needed)
RECURSIVE FracLeq(_, _, _, _)
FracLeq(a, b, c, d) ==
    IF a \div b # c \div d THEN a \div b < c \div d
    ELSE IF a % b = 0 THEN TRUE
    ELSE IF c % d = 0 THEN FALSE
    ELSE FracLeq(d, c % d, b, a % b)

\* f1 <= f2 as floats: 1e-12 lies below every value 1 / (F + 1e-9) with F < 1e12
FitnessLeq(f1, f2) ==
    IF f1.status = "failed" THEN TRUE
    ELSE IF f2.status = "failed" THEN FALSE
    ELSE FracLeq(f2.cost, f1.cost, f1.x * f1.x, f2.x * f2.x)

\* ------------------------------------------------- StructureModel operations
set_sections_by_groups(genes) ==
    /\ beam_sections' = SetBeamSections(beam_groups, beam_sections, genes)
    /\ column_sections' = SetColumnSections(column_groups, column_sections, genes)
    /\ last_genes' = genes
    /\ redecode' = IF last_genes = NoGenes THEN "first"
                   ELSE IF last_genes = genes THEN "same" ELSE "other"
    /\ last_op' = "set_sections"
    /\ UNCHANGED <<topoVars, ss, forces, singular>>

build_anastruct_model ==
    /\ ss' = BuildAnastructModel(grid, beam_sections, column_sections)
    /\ last_op' = "build"
    /\ UNCHANGED <<topoVars, beam_sections, column_sections, forces, singular, last_genes, redecode>>

\* analyze(): builds the solver model only when there is none, solves, extracts
analyze ==
    LET model == IF ~ss.built
                 THEN BuildAnastructModel(grid, beam_sections, column_sections)
                 ELSE ss
    IN /\ ss' = model
       /\ IF SolveFails(model, singular)
          THEN /\ last_op' = "analyze_raised"
               /\ UNCHANGED forces
          ELSE /\ last_op' = "analyze"
               /\ forces' = AnalyzeForces(grid, model)
       /\ UNCHANGED <<topoVars, beam_sections, column_sections, singular, last_genes, redecode>>

\* the state after StructureModel(db) and build_from_grid(grid)
ModelInit ==
    /\ grid \in Grids
    /\ beam_groups = assign_beam_groups(grid)
    /\ column_groups = assign_column_groups(grid)
    /\ beam_sections = EmptyMap
    /\ column_sections = EmptyMap
    /\ ss = NoModel
    /\ forces = NoForces
    /\ last_genes = NoGenes
    /\ redecode = "none"
    /\ last_op = "build_from_grid"

\* mutant: the first section is left out of the precomputation
precompute_pm_curves_SkipFirst == 1 .. SectionCount - 1

\* precompute_pm_curves(): one curve cached for every idx in range(len(self.db))
precompute_pm_curves == 0 .. SectionCount - 1

\* the section indices verify_all_elements passes to check_column_capacity,
\* each looked up with get_pm_curve
PmLookups(f, cs) ==
    {Get(cs, id, VerifyDefaultColumn) :
        id \in {i \in DOMAIN f.members : f.members[i].element_type # "beam"}}

\* get_pm_curve: a hit returns the cached curve, a miss generates the curve
\* and stores it in the cache
get_pm_curve(lookups) ==
    /\ pm_cache' = pm_cache \cup lookups
    /\ pm_missed' = pm_missed \cup (lookups \ pm_cache)

\* FrameOptimizer.__init__: P-M curves precomputed, penalty coefficient 1.0, counters 0
OptimizerInit ==
    /\ pm_cache = precompute_pm_curves
    /\ pm_missed = {}
    /\ penalty_coeff = CoeffScale
    /\ current_gen_feasible = 0
    /\ current_gen_total = 0

NoCall == [op |-> "none"]
NoStream == [fixed |-> FALSE]
NoHeld == [status |-> "none"]

\* run() not called
RunIdle ==
    /\ run_pc = "NotStarted"
    /\ population = <<>>
    /\ elites = <<>>
    /\ last_generation_fitness = <<>>
    /\ generations_completed = 0
    /\ callback = [active |-> FALSE]
    /\ fitness_history = <<>>
    /\ cost_history = <<>>
    /\ feasible_ratio_history = <<>>
    /\ best_recorded = NoFitness
    /\ result = [status |-> "none"]
    /\ held = NoHeld

NoRun == RunIdle /\ num_generations = 0 /\ sol_per_pop = 0 /\ seed_stream = NoStream

\* no optimizer around the model
NoOptimizer ==
    /\ variant = "src"
    /\ parallel = FALSE
    /\ weak = {}
    /\ OptimizerInit
    /\ evals = <<>>
    /\ NoRun

\* ---- decoding only: any sequence of set_sections_by_groups calls
InitDecode == ModelInit /\ singular = {} /\ NoOptimizer /\ call = NoCall
NextDecode ==
    /\ \E genes \in Genotypes : set_sections_by_groups(genes)
    /\ UNCHANGED <<evalVars, runVars, calcVars>>
SpecDecode == InitDecode /\ [][NextDecode]_vars

\* ---- one model driven by any sequence of its three operations
GenePool ==
    { [i \in 1..6 |-> v] : v \in Genes } \cup
    { [i \in 1..6 |-> (v + i) % (MaxGene + 1)] : v \in Genes }

InitModel ==
    /\ ModelInit
    /\ singular \in ({{}} \cup {{s} : s \in Genes})
    /\ NoOptimizer
    /\ call = NoCall
NextModel ==
    \/ (\E genes \in GenePool : set_sections_by_groups(genes)) /\ UNCHANGED <<evalVars, runVars, calcVars>>
    \/ build_anastruct_model /\ UNCHANGED <<evalVars, runVars, calcVars>>
    \/ analyze /\ UNCHANGED <<evalVars, runVars, calcVars>>
SpecModel == InitModel /\ [][NextModel]_vars

\* ======================================================================
\* FrameOptimizer.fitness_func
\* ======================================================================

\* one fitness_func call: its argument, its position, its local variables
\* `forces` and `total_penalty`, the section maps verify_all_elements was
\* handed, the steps it has run and the value it returned
NoRead == [done |-> FALSE]
NewEval(genes) ==
    [genes |-> genes, pc |-> "Idle", forces |-> NoForces, total_penalty |-> 0,
     read |-> NoRead, steps |-> <<>>, fitness |-> NoFitness]

\* the steps of the try block in program order; building the solver model
\* and solving it together are the analysis step
EvalSteps == <<"assign", "build", "analyze", "verify", "score">>

\* mutant: an evaluation whose step failed starts over instead of returning
AfterStep_Retry(pc, raised) ==
    IF raised THEN "SectionsAssigned"
    ELSE CASE pc = "Idle" -> "SectionsAssigned"
           [] pc = "SectionsAssigned" -> "ModelBuilt"
           [] pc = "ModelBuilt" -> "Analyzed"
           [] pc = "Analyzed" -> "Verified"
           [] pc = "Verified" -> "Scored"

\* the position after the step at `pc`; an exception in the try block goes to
\* the except clause, which returns
AfterStep(pc, raised) ==
    IF raised THEN "Scored"
    ELSE CASE pc = "Idle" -> "SectionsAssigned"
           [] pc = "SectionsAssigned" -> "ModelBuilt"
           [] pc = "ModelBuilt" -> "Analyzed"
           [] pc = "Analyzed" -> "Verified"
           [] pc = "Verified" -> "Scored"

Stepped(e, name, raised) ==
    [e EXCEPT !.pc = AfterStep(e.pc, raised), !.steps = Append(e.steps, name)]

\* without a thread pool the engine calls fitness_func for one solution after
\* the other; with parallel_processing=['thread', n] the calls run concurrently
Turn(t) ==
    parallel \/ \A u \in DOMAIN evals : u < t => evals[u].pc = "Scored"

\* self.model.set_sections_by_groups(genes)
EvalAssign(t) ==
    /\ evals[t].pc = "Idle"
    /\ Turn(t)
    /\ set_sections_by_groups(evals[t].genes)
    /\ evals' = [evals EXCEPT ![t] = Stepped(@, "assign", FALSE)]
    /\ UNCHANGED <<variant, parallel, weak, pm_cache, pm_missed, penalty_coeff, current_gen_feasible, current_gen_total, runVars, calcVars>>

\* self.model.build_anastruct_model()
EvalBuild(t) ==
    /\ evals[t].pc = "SectionsAssigned"
    /\ build_anastruct_model
    /\ evals' = [evals EXCEPT ![t] = Stepped(@, "build", FALSE)]
    /\ UNCHANGED <<variant, parallel, weak, pm_cache, pm_missed, penalty_coeff, current_gen_feasible, current_gen_total, runVars, calcVars>>

\* forces = self.model.analyze(); a solver exception is caught: return 1e-12
EvalAnalyze(t) ==
    /\ evals[t].pc = "ModelBuilt"
    /\ analyze
    /\ evals' = [evals EXCEPT ![t] =
                    IF last_op' = "analyze_raised"
                    THEN [Stepped(@, "analyze", TRUE) EXCEPT !.fitness = FailedFitness]
                    ELSE [Stepped(@, "analyze", FALSE) EXCEPT !.forces = forces']]
    /\ UNCHANGED <<variant, parallel, weak, pm_cache, pm_missed, penalty_coeff, current_gen_feasible, current_gen_total, runVars, calcVars>>

\* verify_all_elements(forces, self.model.beam_sections, self.model.column_sections)
\* and check_topology_constraints(genes, self.grid)
EvalVerify(t) ==
    /\ evals[t].pc = "Analyzed"
    /\ evals' = [evals EXCEPT ![t] =
                    [Stepped(@, "verify", FALSE) EXCEPT
                        !.total_penalty =
                            verify_all_elements(evals[t].forces, beam_sections, column_sections, weak)
                            + check_topology_constraints(evals[t].genes),
                        !.read = [done |-> TRUE, beam_sections |-> beam_sections,
                                  column_sections |-> column_sections]]]
    /\ get_pm_curve(PmLookups(evals[t].forces, column_sections))
    /\ UNCHANGED <<modelVars, variant, parallel, weak, penalty_coeff, current_gen_feasible, current_gen_total, runVars, calcVars>>

\* cost, F, fitness and the per-generation counters; the locals end with the call
EvalScore(t) ==
    /\ evals[t].pc = "Verified"
    /\ evals' = [evals EXCEPT ![t] =
                    [Stepped(@, "score", FALSE) EXCEPT
                        !.forces = NoForces,
                        !.total_penalty = 0,
                        !.read = NoRead,
                        !.fitness = OkFitness(
                            calculate_cost(variant, grid, beam_groups, column_groups, evals[t].genes),
                            penalty_coeff, evals[t].total_penalty)]]
    /\ current_gen_total' = current_gen_total + 1
    /\ current_gen_feasible' = IF evals[t].total_penalty = 0
                               THEN current_gen_feasible + 1
                               ELSE current_gen_feasible
    /\ UNCHANGED <<modelVars, variant, parallel, weak, pm_cache, pm_missed, penalty_coeff, runVars, calcVars>>

\* the frame the optimizer runs on: one span, two stories
RunGrid ==
    [x_spans |-> <<SpanLength>>, z_heights |-> <<StoryHeight, StoryHeight>>]

\* ---- the evaluations of one population, serial or in the thread pool
NumEval == 2
EvalPool ==
    { [i \in 1..6 |-> 0], [i \in 1..6 |-> MaxGene],
      [i \in 1..6 |-> IF i = 6 THEN MaxGene ELSE 0] }

InitEval ==
    /\ ModelInit
    /\ grid = RunGrid
    /\ singular \in {{}, {0}}
    /\ weak \in {{}, {MaxGene}}
    /\ variant = "src"
    /\ parallel \in BOOLEAN
    /\ OptimizerInit
    /\ evals \in [1..NumEval -> {NewEval(g) : g \in EvalPool}]
    /\ NoRun
    /\ call = NoCall

NextEval ==
    \/ \E t \in DOMAIN evals : EvalAssign(t)
    \/ \E t \in DOMAIN evals : EvalBuild(t)
    \/ \E t \in DOMAIN evals : EvalAnalyze(t)
    \/ \E t \in DOMAIN evals : EvalVerify(t)
    \/ \E t \in DOMAIN evals : EvalScore(t)

SpecEval == InitEval /\ [][NextEval]_vars

\* ======================================================================
\* FrameOptimizer.run and the GA engine it drives
\* ======================================================================

\* fitness_func called without a thread pool: the whole call is one step
fitness_func(t) ==
    /\ ~parallel
    /\ evals[t].pc = "Idle"
    /\ Turn(t)
    /\ LET genes == evals[t].genes
           bs == SetBeamSections(beam_groups, beam_sections, genes)
           cs == SetColumnSections(column_groups, column_sections, genes)
           model == BuildAnastructModel(grid, bs, cs)
           raised == SolveFails(model, singular)
           f == AnalyzeForces(grid, model)
           total_penalty == verify_all_elements(f, bs, cs, weak)
                            + check_topology_constraints(genes)
       IN /\ beam_sections' = bs
          /\ column_sections' = cs
          /\ ss' = model
          /\ forces' = IF raised THEN forces ELSE f
          /\ last_genes' = genes
          /\ redecode' = IF last_genes = NoGenes THEN "first"
                         ELSE IF last_genes = genes THEN "same" ELSE "other"
          /\ last_op' = IF raised THEN "analyze_raised" ELSE "analyze"
          /\ evals' = [evals EXCEPT ![t] =
                IF raised
                THEN [@ EXCEPT !.pc = "Scored", !.steps = Prefix(EvalSteps, 3),
                               !.fitness = FailedFitness]
                ELSE [@ EXCEPT !.pc = "Scored", !.steps = EvalSteps,
                               !.fitness = OkFitness(
                                   calculate_cost(variant, grid, beam_groups, column_groups, genes),
                                   penalty_coeff, total_penalty)]]
          /\ current_gen_total' = IF raised THEN current_gen_total ELSE current_gen_total + 1
          /\ current_gen_feasible' = IF ~raised /\ total_penalty = 0
                                     THEN current_gen_feasible + 1
                                     ELSE current_gen_feasible
          /\ get_pm_curve(IF raised THEN {} ELSE PmLookups(f, cs))
    /\ UNCHANGED <<topoVars, singular, variant, parallel, weak, penalty_coeff, runVars, calcVars>>

\* ---- the engine (pygad.GA as run() configures it)
KeepElitism == 2

Max2(a, b) == IF a > b THEN a ELSE b
Min2(a, b) == IF a < b THEN a ELSE b

\* num_parents_mating as run() computes it; the engine rejects a value above sol_per_pop
NumParentsMating(v, pop) ==
    IF v = "phase4" THEN Max2(20, pop \div 2)
    ELSE Min2(Max2(10, pop \div 2), pop - 2)

FitnessEq(f1, f2) == FitnessLeq(f1, f2) /\ FitnessLeq(f2, f1)

\* best_solution(): the first index of the maximum of pop_fitness
BestIndex(fit) ==
    CHOOSE i \in DOMAIN fit :
        \A j \in DOMAIN fit :
            /\ FitnessLeq(fit[j], fit[i])
            /\ j < i => ~FitnessLeq(fit[i], fit[j])

\* steady_state_selection: indices sorted by fitness (stable, ascending), reversed
Better(fit, i, j) ==
    IF FitnessEq(fit[i], fit[j]) THEN i > j ELSE FitnessLeq(fit[j], fit[i])
RankedFirst(fit, S) == CHOOSE i \in S : \A j \in S \ {i} : Better(fit, i, j)
EliteIndices(fit) ==
    LET e1 == RankedFirst(fit, DOMAIN fit)
        e2 == RankedFirst(fit, (DOMAIN fit) \ {e1})
    IN <<e1, e2>>

\* cal_pop_fitness: a solution equal to one of last generation's elites takes
\* that elite's stored fitness; fitness_func is called for the others
EliteMatch(el, genes) == {j \in DOMAIN el : el[j].genes = genes}
NeedEval(pop, el) == {i \in DOMAIN pop : EliteMatch(el, pop[i]) = {}}
CalPopFitness(pop, el, ev) ==
    [i \in DOMAIN pop |->
        IF i \in DOMAIN ev THEN ev[i].fitness
        ELSE el[CHOOSE j \in EliteMatch(el, pop[i]) :
                    \A k \in EliteMatch(el, pop[i]) : j <= k].fitness]
StartEvals(pop, el) == [i \in NeedEval(pop, el) |-> NewEval(pop[i])]
AllScored == \A t \in DOMAIN evals : evals[t].pc = "Scored"

\* feasible_ratio > 0.7 / < 0.2 for feasible_ratio = feasible / total if total > 0 else 0
RatioAbove07(r) == r.total > 0 /\ 10 * r.feasible > 7 * r.total
RatioBelow02(r) == r.total = 0 \/ 10 * r.feasible < 2 * r.total

\* mutant: the two factors exchanged
AdaptPenaltyCoeff_Swapped(coeff, r) ==
    LET c == IF RatioAbove07(r) THEN (coeff * 11) \div 10
             ELSE IF RatioBelow02(r) THEN (coeff * 9) \div 10
             ELSE coeff
    IN Max2(CoeffScale \div 2, Min2(3 * CoeffScale, c))

\* on_generation, `if gen % 3 == 0`: *= 0.9 / *= 1.1, np.clip(..., 0.5, 3.0)
AdaptPenaltyCoeff(coeff, r) ==
    LET c == IF RatioAbove07(r) THEN (coeff * 9) \div 10
             ELSE IF RatioBelow02(r) THEN (coeff * 11) \div 10
             ELSE coeff
    IN Max2(CoeffScale \div 2, Min2(3 * CoeffScale, c))

\* cost_history: a new best cost is recorded only when below the last entry
AppendCost(hist, best_cost) ==
    IF Len(hist) = 0 \/ best_cost < hist[Len(hist)]
    THEN Append(hist, best_cost)
    ELSE Append(hist, hist[Len(hist)])

NoCallback == [active |-> FALSE]
NoResult == [status |-> "none"]
Raised(err) == [status |-> "raised", error |-> err]

\* ---- run()
SmallPop == KeepElitism + 1
LargePop == 20
MaxGenerations == 3

\* the genotypes the engine draws from: all sections smallest, all sections
\* largest, and smallest with a larger top column
RunPool ==
    { [i \in 1..6 |-> 0], [i \in 1..6 |-> MaxGene],
      [i \in 1..6 |-> IF i = 6 THEN MaxGene ELSE 0] }

\* initial populations: one genotype for the first solution, one for the others
InitialPopulations(n) ==
    { [i \in 1..n |-> IF i = 1 THEN g1 ELSE g2] : g1, g2 \in RunPool }

RunConfigs ==
    { [variant |-> "src", parallel |-> FALSE, sol_per_pop |-> SmallPop],
      [variant |-> "src", parallel |-> TRUE, sol_per_pop |-> SmallPop],
      [variant |-> "phase4", parallel |-> FALSE, sol_per_pop |-> SmallPop],
      [variant |-> "phase4", parallel |-> FALSE, sol_per_pop |-> LargePop] }

Ratio == [feasible |-> current_gen_feasible, total |-> current_gen_total]

MaxFitness(f1, f2) ==
    IF f1.status = "none" THEN f2
    ELSE IF FitnessLeq(f1, f2) THEN f2 ELSE f1

\* random_seed: where the model fixes the stream of the seed the engine draws
\* the initial population and each generation's offspring from it
SeededInitialPopulations ==
    IF seed_stream = NoStream THEN InitialPopulations(sol_per_pop) ELSE {seed_stream.initial}
SeededOffspring(gen) ==
    IF seed_stream = NoStream THEN RunPool ELSE {seed_stream.offspring[gen]}

\* run() up to ga_instance.run(): histories and coefficient reset, engine
\* constructed (it raises ValueError when num_parents_mating > sol_per_pop),
\* the initial population handed to cal_pop_fitness
run_start ==
    /\ run_pc = "NotStarted"
    /\ fitness_history' = <<>>
    /\ cost_history' = <<>>
    /\ feasible_ratio_history' = <<>>
    /\ penalty_coeff' = CoeffScale
    /\ \/ /\ NumParentsMating(variant, sol_per_pop) > sol_per_pop
          /\ result' = Raised("ValueError")
          /\ run_pc' = "Done"
          /\ UNCHANGED <<population, evals>>
       \/ /\ NumParentsMating(variant, sol_per_pop) <= sol_per_pop
          /\ \E pop \in SeededInitialPopulations :
                /\ population' = pop
                /\ evals' = StartEvals(pop, <<>>)
          /\ run_pc' = "InitialFitness"
          /\ UNCHANGED result
    /\ UNCHANGED <<calcVars, modelVars, variant, parallel, weak, pm_cache, pm_missed, current_gen_feasible, current_gen_total,
                   num_generations, sol_per_pop, elites, last_generation_fitness,
                   generations_completed, callback, best_recorded, seed_stream, held>>

\* one pass of the engine's generation loop up to cal_pop_fitness: elites
\* kept in front, offspring behind them
next_generation ==
    /\ \/ run_pc = "InitialFitness" /\ AllScored
       \/ run_pc = "AfterCallback" /\ generations_completed < num_generations
    /\ LET fit == IF run_pc = "InitialFitness"
                  THEN CalPopFitness(population, elites, evals)
                  ELSE last_generation_fitness
           idx == EliteIndices(fit)
           el == [j \in 1..KeepElitism |->
                    [genes |-> population[idx[j]], fitness |-> fit[idx[j]]]]
       IN \E g \in SeededOffspring(generations_completed + 1) :
            LET pop == [i \in 1..sol_per_pop |->
                          IF i <= KeepElitism THEN el[i].genes ELSE g]
            IN /\ population' = pop
               /\ elites' = el
               /\ last_generation_fitness' = fit
               /\ evals' = StartEvals(pop, el)
    /\ generations_completed' = generations_completed + 1
    /\ run_pc' = "GenerationFitness"
    /\ UNCHANGED <<calcVars, modelVars, variant, parallel, weak, pm_cache, pm_missed, penalty_coeff, current_gen_feasible,
                   current_gen_total, num_generations, sol_per_pop, callback,
                   fitness_history, cost_history, feasible_ratio_history,
                   best_recorded, result, seed_stream, held>>

\* phase4 on_generation
on_generation_phase4 ==
    /\ run_pc = "GenerationFitness" /\ AllScored
    /\ variant = "phase4"
    /\ LET fitness_values == CalPopFitness(population, elites, evals)
           best_idx == BestIndex(fitness_values)
           best_cost == calculate_cost(variant, grid, beam_groups, column_groups,
                                       population[best_idx])
       IN /\ last_generation_fitness' = fitness_values
          /\ best_recorded' = MaxFitness(best_recorded, fitness_values[best_idx])
          /\ fitness_history' = Append(fitness_history, fitness_values[best_idx])
          /\ cost_history' = Append(cost_history, best_cost)
    /\ feasible_ratio_history' = Append(feasible_ratio_history, Ratio)
    /\ penalty_coeff' = IF generations_completed % 3 = 0
                        THEN AdaptPenaltyCoeff(penalty_coeff, Ratio)
                        ELSE penalty_coeff
    /\ current_gen_feasible' = 0
    /\ current_gen_total' = 0
    /\ evals' = <<>>
    /\ run_pc' = "AfterCallback"
    /\ UNCHANGED <<calcVars, modelVars, variant, parallel, weak, pm_cache, pm_missed, num_generations, sol_per_pop,
                   population, elites, generations_completed, callback, result, seed_stream, held>>

\* src on_generation up to its ga_instance.best_solution() call, which has
\* cal_pop_fitness evaluate the population again
on_generation_call ==
    /\ run_pc = "GenerationFitness" /\ AllScored
    /\ variant = "src" /\ ~parallel
    /\ LET fitness_values == CalPopFitness(population, elites, evals)
       IN /\ last_generation_fitness' = fitness_values
          /\ best_recorded' = MaxFitness(best_recorded, fitness_values[BestIndex(fitness_values)])
          /\ callback' = [active |-> TRUE,
                          best_fitness |-> fitness_values[BestIndex(fitness_values)],
                          feasible_ratio |-> Ratio]
    /\ evals' = StartEvals(population, elites)
    /\ run_pc' = "CallbackBest"
    /\ UNCHANGED <<calcVars, modelVars, variant, parallel, weak, pm_cache, pm_missed, penalty_coeff, current_gen_feasible,
                   current_gen_total, num_generations, sol_per_pop, population, elites,
                   generations_completed, fitness_history, cost_history,
                   feasible_ratio_history, result, seed_stream, held>>

\* src on_generation from the return of best_solution() to its end
on_generation_return ==
    /\ run_pc = "CallbackBest" /\ AllScored
    /\ ~parallel
    /\ LET pop_fitness == CalPopFitness(population, elites, evals)
           best_cost == calculate_cost(variant, grid, beam_groups, column_groups,
                                       population[BestIndex(pop_fitness)])
       IN cost_history' = AppendCost(cost_history, best_cost)
    /\ fitness_history' = Append(fitness_history, callback.best_fitness)
    /\ feasible_ratio_history' = Append(feasible_ratio_history, callback.feasible_ratio)
    /\ penalty_coeff' = IF generations_completed % 3 = 0
                        THEN AdaptPenaltyCoeff(penalty_coeff, callback.feasible_ratio)
                        ELSE penalty_coeff
    /\ current_gen_feasible' = 0
    /\ current_gen_total' = 0
    /\ callback' = NoCallback
    /\ evals' = <<>>
    /\ run_pc' = "AfterCallback"
    /\ UNCHANGED <<calcVars, modelVars, variant, parallel, weak, pm_cache, pm_missed, num_generations, sol_per_pop,
                   population, elites, last_generation_fitness, generations_completed,
                   best_recorded, result, seed_stream, held>>

\* _on_generation_parallel up to its ga_instance.best_solution() call
on_generation_parallel_call ==
    /\ run_pc = "GenerationFitness" /\ AllScored
    /\ variant = "src" /\ parallel
    /\ LET fitness_values == CalPopFitness(population, elites, evals)
       IN /\ last_generation_fitness' = fitness_values
          /\ best_recorded' = MaxFitness(best_recorded, fitness_values[BestIndex(fitness_values)])
    /\ callback' = [active |-> TRUE]
    /\ evals' = StartEvals(population, elites)
    /\ run_pc' = "CallbackBest"
    /\ UNCHANGED <<calcVars, modelVars, variant, parallel, weak, pm_cache, pm_missed, penalty_coeff, current_gen_feasible,
                   current_gen_total, num_generations, sol_per_pop, population, elites,
                   generations_completed, fitness_history, cost_history,
                   feasible_ratio_history, result, seed_stream, held>>

\* _on_generation_parallel from the return of best_solution() to its end
on_generation_parallel_return ==
    /\ run_pc = "CallbackBest" /\ AllScored
    /\ parallel
    /\ LET pop_fitness == CalPopFitness(population, elites, evals)
           best_idx == BestIndex(pop_fitness)
           best_cost == calculate_cost(variant, grid, beam_groups, column_groups,
                                       population[best_idx])
       IN /\ cost_history' = AppendCost(cost_history, best_cost)
          /\ fitness_history' = Append(fitness_history, pop_fitness[best_idx])
    /\ callback' = NoCallback
    /\ evals' = <<>>
    /\ run_pc' = "AfterCallback"
    /\ UNCHANGED <<calcVars, modelVars, variant, parallel, weak, pm_cache, pm_missed, penalty_coeff, current_gen_feasible,
                   current_gen_total, num_generations, sol_per_pop, population, elites,
                   last_generation_fitness, generations_completed, feasible_ratio_history,
                   best_recorded, result, seed_stream, held>>

\* ga_instance.run() has returned; run() calls ga_instance.best_solution()
run_best_solution ==
    /\ run_pc = "AfterCallback"
    /\ generations_completed = num_generations
    /\ evals' = StartEvals(population, elites)
    /\ run_pc' = "FinalBest"
    /\ UNCHANGED <<calcVars, modelVars, variant, parallel, weak, pm_cache, pm_missed, penalty_coeff, current_gen_feasible,
                   current_gen_total, num_generations, sol_per_pop, population, elites,
                   last_generation_fitness, generations_completed, callback,
                   fitness_history, cost_history, feasible_ratio_history,
                   best_recorded, result, seed_stream, held>>

\* run() from the return of best_solution(): analysis of the best genotype
\* (not inside a try), construction of the OptimizationResult (the phase4
\* dataclass has no cost_history / feasible_ratio_history field: TypeError)
\* mutant: the cost is taken back from the fitness, best_cost = 1.0 / solution_fitness
ResultCost_FromFitness(best_cost, solution_fitness) ==
    IF solution_fitness.status = "failed" THEN 0
    ELSE (solution_fitness.cost \div CoeffScale)
            * ((solution_fitness.x * solution_fitness.x) \div CoeffScale)

\* the cost that run() puts into the result: best_cost = self.calculate_cost(best_genes)
ResultCost(best_cost, solution_fitness) == best_cost

run_return ==
    /\ run_pc = "FinalBest" /\ AllScored
    /\ LET pop_fitness == CalPopFitness(population, elites, evals)
           best_genes == population[BestIndex(pop_fitness)]
           bs == SetBeamSections(beam_groups, beam_sections, best_genes)
           cs == SetColumnSections(column_groups, column_sections, best_genes)
           model == BuildAnastructModel(grid, bs, cs)
           raised == SolveFails(model, singular)
           f == AnalyzeForces(grid, model)
       IN /\ beam_sections' = bs
          /\ column_sections' = cs
          /\ ss' = model
          /\ forces' = IF raised THEN forces ELSE f
          /\ last_genes' = best_genes
          /\ redecode' = IF last_genes = NoGenes THEN "first"
                         ELSE IF last_genes = best_genes THEN "same" ELSE "other"
          /\ last_op' = IF raised THEN "analyze_raised" ELSE "analyze"
          /\ result' =
                IF raised THEN Raised("analysis")
                ELSE IF variant = "phase4" THEN Raised("TypeError")
                ELSE [status |-> "returned",
                      genes |-> best_genes,
                      cost |-> ResultCost(
                                  calculate_cost(variant, grid, beam_groups, column_groups,
                                                 best_genes),
                                  pop_fitness[BestIndex(pop_fitness)]),
                      fitness |-> pop_fitness[BestIndex(pop_fitness)],
                      forces |-> f,
                      convergence_history |-> cost_history,
                      cost_history |-> cost_history,
                      feasible_ratio_history |-> feasible_ratio_history]
    /\ evals' = <<>>
    /\ run_pc' = "Done"
    /\ UNCHANGED <<calcVars, topoVars, singular, variant, parallel, weak, pm_cache, pm_missed, penalty_coeff,
                   current_gen_feasible, current_gen_total, num_generations, sol_per_pop,
                   population, elites, last_generation_fitness, generations_completed,
                   callback, fitness_history, cost_history, feasible_ratio_history,
                   best_recorded, seed_stream, held>>

InitRun ==
    /\ ModelInit
    /\ grid = RunGrid
    /\ singular \in {{}, {0}}
    /\ weak = {MaxGene}
    /\ \E c \in RunConfigs :
          /\ variant = c.variant
          /\ parallel = c.parallel
          /\ sol_per_pop = c.sol_per_pop
    /\ num_generations \in 1..MaxGenerations
    /\ OptimizerInit
    /\ evals = <<>>
    /\ RunIdle
    /\ seed_stream = NoStream
    /\ call = NoCall

NextRun ==
    \/ run_start
    \/ \E t \in DOMAIN evals : fitness_func(t)
    \/ \E t \in DOMAIN evals : parallel /\ EvalAssign(t)
    \/ \E t \in DOMAIN evals : parallel /\ EvalBuild(t)
    \/ \E t \in DOMAIN evals : parallel /\ EvalAnalyze(t)
    \/ \E t \in DOMAIN evals : parallel /\ EvalVerify(t)
    \/ \E t \in DOMAIN evals : parallel /\ EvalScore(t)
    \/ next_generation
    \/ on_generation_phase4
    \/ on_generation_call
    \/ on_generation_return
    \/ on_generation_parallel_call
    \/ on_generation_parallel_return
    \/ run_best_solution
    \/ run_return

SpecRun == InitRun /\ [][NextRun]_vars

\* ---- a second run with the same arguments
\* a new pygad.GA is constructed by every run(); the caller keeps the
\* OptimizationResult of the run that has returned
NewEngine ==
    /\ population' = <<>>
    /\ elites' = <<>>
    /\ last_generation_fitness' = <<>>
    /\ generations_completed' = 0
    /\ callback' = NoCallback
    /\ best_recorded' = NoFitness
    /\ result' = NoResult
    /\ evals' = <<>>
    /\ run_pc' = "NotStarted"

\* optimizer.run(...) called again on the same FrameOptimizer, same arguments
run_again ==
    /\ run_pc = "Done" /\ result.status = "returned" /\ held = NoHeld
    /\ held' = [status |-> "held", result |-> result, same_optimizer |-> TRUE]
    /\ NewEngine
    /\ UNCHANGED <<calcVars, modelVars, variant, parallel, weak, pm_cache, pm_missed, penalty_coeff, current_gen_feasible,
                   current_gen_total, num_generations, sol_per_pop, fitness_history,
                   cost_history, feasible_ratio_history, seed_stream>>

\* a second FrameOptimizer(grid, db) is constructed and run with the same
\* arguments except the evaluation mode, as the module's self-test does
run_other_mode ==
    /\ run_pc = "Done" /\ result.status = "returned" /\ held = NoHeld
    /\ held' = [status |-> "held", result |-> result, same_optimizer |-> FALSE]
    /\ NewEngine
    /\ parallel' = ~parallel
    /\ beam_sections' = EmptyMap
    /\ column_sections' = EmptyMap
    /\ ss' = NoModel
    /\ forces' = NoForces
    /\ last_genes' = NoGenes
    /\ redecode' = "none"
    /\ last_op' = "build_from_grid"
    /\ pm_cache' = precompute_pm_curves
    /\ penalty_coeff' = CoeffScale
    /\ current_gen_feasible' = 0
    /\ current_gen_total' = 0
    /\ fitness_history' = <<>>
    /\ cost_history' = <<>>
    /\ feasible_ratio_history' = <<>>
    /\ UNCHANGED <<calcVars, topoVars, singular, variant, weak, pm_missed, num_generations, sol_per_pop, seed_stream>>

\* the held OptimizationResult as the caller reads it now: its history fields
\* are the optimizer's own list objects
HeldResult ==
    IF held.same_optimizer
    THEN [held.result EXCEPT !.convergence_history = cost_history,
                             !.cost_history = cost_history,
                             !.feasible_ratio_history = feasible_ratio_history]
    ELSE held.result

\* the streams a seed can stand for: an initial population and one genotype
\* as the offspring of every generation
SeedStreams(pop, gens) ==
    { [fixed |-> TRUE, initial |-> p, offspring |-> [k \in 1..gens |-> g]] :
        p \in InitialPopulations(pop), g \in RunPool }

InitRerun ==
    /\ ModelInit
    /\ grid = RunGrid
    /\ singular = {}
    /\ weak = {MaxGene}
    /\ variant = "src"
    /\ parallel = FALSE
    /\ sol_per_pop = SmallPop
    /\ num_generations \in 1..MaxGenerations
    /\ OptimizerInit
    /\ evals = <<>>
    /\ RunIdle
    /\ seed_stream \in SeedStreams(sol_per_pop, num_generations)
    /\ call = NoCall

NextRerun ==
    \/ run_start
    \/ \E t \in DOMAIN evals : fitness_func(t)
    \/ \E t \in DOMAIN evals : parallel /\ EvalAssign(t)
    \/ \E t \in DOMAIN evals : parallel /\ EvalBuild(t)
    \/ \E t \in DOMAIN evals : parallel /\ EvalAnalyze(t)
    \/ \E t \in DOMAIN evals : parallel /\ EvalVerify(t)
    \/ \E t \in DOMAIN evals : parallel /\ EvalScore(t)
    \/ next_generation
    \/ on_generation_call
    \/ on_generation_return
    \/ on_generation_parallel_call
    \/ on_generation_parallel_return
    \/ run_best_solution
    \/ run_return
    \/ run_again
    \/ run_other_mode

SpecRerun == InitRerun /\ [][NextRerun]_vars

\* ---- calls of the calculation functions on their own
\* ------------------------------------------------------- capacity_calculator
\* The calculator works in floating point; here lengths are in 0.01 mm, forces
\* in 0.1 kN, moments in 0.01 kN.m and stresses in 0.1 MPa, every quotient
\* rounded down. "src" is src/calculation/capacity_calculator.py, "phase4" is
\* phase1/capacity_calculator.py, which phase4/section_verifier.py imports.
Calculators == {"src", "phase4"}
LenScale == 100
C_COVER == 35
D_STIRRUP == 8
DEFAULT_COL_AS == 1520
StressLimit == 3600

\* get_h0(h) = h - a_s, a_s = C_COVER + D_STIRRUP + 10
get_h0(h) == h - (C_COVER + D_STIRRUP + 10)

\* x_b = xi_b * h0 with xi_b = BETA_1 / (1 + F_Y / (E_S * 0.0033)) = 44/85
x_b(h) == (44 * get_h0(h) * LenScale) \div 85

\* max(-F_Y, min(F_Y_PRIME, E_S * 0.0033 * (x - d) / x)): the stress of the
\* steel at depth d when the neutral axis is at x, compression positive
SteelStress(x, d) ==
    IF 300 * x >= 660 * d THEN StressLimit
    ELSE IF 1020 * x <= 660 * d THEN -StressLimit
    ELSE (6600 * (x - d)) \div x

\* f_c * b * depth: the force of a concrete block of the given depth
ConcreteForce(b, depth) == (143 * (b \div 50) * depth) \div 2000

\* stress * area and force * arm in the units above
SteelForce(stress, area) == (stress * area) \div 1000
Moment(force, arm) == (force * (arm \div 10)) \div 1000

\* compute_nm(x) of the "src" calculator, for x > 1e-5
compute_nm(b, h, As_total, x) ==
    LET a_s_prime == (h - get_h0(h)) * LenScale
        h_eff == Min2(h * LenScale, (8 * x) \div 10)
        C_c == ConcreteForce(b, h_eff)
        M_c == Moment(C_c, (h * LenScale) \div 2 - h_eff \div 2)
        F_prime == SteelForce(SteelStress(x, a_s_prime), As_total \div 2)
        M_prime == Moment(F_prime, (h * LenScale) \div 2 - a_s_prime)
        F_s == SteelForce(SteelStress(x, get_h0(h) * LenScale), As_total \div 2)
        M_s == Moment(F_s, (h * LenScale) \div 2 - get_h0(h) * LenScale)
    IN <<C_c + F_prime + F_s, Abs(M_c + M_prime + M_s)>>

\* x_steps of the "src" calculator: 1.5h, 1.1h, fifteen steps from h down to
\* x_b, fourteen from x_b towards 0
x_steps(h) ==
    <<(15 * h * LenScale) \div 10, (11 * h * LenScale) \div 10>>
    \o [k \in 1..15 |->
          x_b(h) + ((h * LenScale - x_b(h)) * (15 - k) * (15 - k)) \div 196]
    \o [i \in 1..14 |-> (x_b(h) * (15 - i)) \div 15]

\* sorted(points, key=lambda p: p[0], reverse=True): the largest axial force
\* first; which of two points of equal axial force comes first is not fixed
RECURSIVE SortByAxial(_)
SortByAxial(points) ==
    IF points = {} THEN <<>>
    ELSE LET p == CHOOSE q \in points : \A r \in points : r[1] <= q[1]
         IN <<p>> \o SortByAxial(points \ {p})

\* the point of the "phase4" calculator's loop at step i of num_points
PointAt(b, h, As_total, num_points, i) ==
    LET a_s == (h - get_h0(h)) * LenScale
        x == Max2(LenScale, Min2((h * LenScale * (num_points - i)) \div num_points,
                                 h * LenScale))
        sigma_s_prime == IF x >= 2 * a_s THEN StressLimit ELSE SteelStress(x, a_s)
        sigma_s == IF x <= x_b(h) THEN StressLimit
                   ELSE -SteelStress(x, get_h0(h) * LenScale)
        C_c == ConcreteForce(b, x)
        N == C_c + SteelForce(sigma_s_prime, As_total \div 2)
                 - SteelForce(sigma_s, As_total \div 2)
        M_center == Moment(C_c, (h * LenScale) \div 2 - x \div 2)
                    + Moment(SteelForce(sigma_s_prime, As_total \div 2),
                             (h * LenScale) \div 2 - a_s)
                    + Moment(SteelForce(sigma_s, As_total \div 2),
                             (h * LenScale) \div 2 - a_s)
    IN <<N, Abs(M_center)>>

\* generate_pm_curve(b, h, As_total, num_points), num_points >= 1: the list of
\* (P, M) points. "src" takes the pure compression point, compute_nm over
\* x_steps and the pure tension point, drops equal points and sorts; it does
\* not read num_points. "phase4" returns its num_points + 1 points as computed.
generate_pm_curve(calc, b, h, As_total, num_points) ==
    IF calc = "src"
    THEN SortByAxial(
            {<<ConcreteForce(b, h * LenScale) + SteelForce(StressLimit, As_total), 0>>}
            \cup {compute_nm(b, h, As_total, x_steps(h)[k]) : k \in 1..Len(x_steps(h))}
            \cup {<<-SteelForce(StressLimit, As_total), 0>>})
    ELSE [k \in 1..(num_points + 1) |-> PointAt(b, h, As_total, num_points, k - 1)]

\* mutant: the ratio is applied from the wrong end of the segment
Interpolate_Swapped(Pa, Ma, Pb, Mb, P_u) ==
    Ma + ((((P_u - Pb) * 10000) \div (Pa - Pb)) * (Mb - Ma)) \div 10000

\* ratio = (P_u - Pb) / (Pa - Pb); Mb + ratio * (Ma - Mb), ratio in 1/10000
Interpolate(Pa, Ma, Pb, Mb, P_u) ==
    Mb + ((((P_u - Pb) * 10000) \div (Pa - Pb)) * (Ma - Mb)) \div 10000

\* the segments of the curve that the loops of check_pm_capacity and
\* _get_pm_capacity_at_axial stop at
SegmentsAt(calc, pm_curve, P_u) ==
    {i \in 1..(Len(pm_curve) - 1) :
        IF calc = "src"
        THEN pm_curve[i + 1][1] <= P_u /\ P_u <= pm_curve[i][1]
        ELSE /\ Min2(pm_curve[i][1], pm_curve[i + 1][1]) <= P_u
             /\ P_u <= Max2(pm_curve[i][1], pm_curve[i + 1][1])}

FirstOf(S) == CHOOSE x \in S : \A y \in S : x <= y

\* M_cap of the first segment that holds P_u
CapacityAt(calc, pm_curve, P_u) ==
    LET i == FirstOf(SegmentsAt(calc, pm_curve, P_u))
        P1 == pm_curve[i][1]
        M1 == pm_curve[i][2]
        P2 == pm_curve[i + 1][1]
        M2 == pm_curve[i + 1][2]
    IN IF P1 = P2 THEN Max2(M1, M2)
       ELSE IF calc = "src" THEN Interpolate(P1, M1, P2, M2, P_u)
       ELSE Interpolate(P2, M2, P1, M1, P_u)

AxialOf(pm_curve) == {pm_curve[k][1] : k \in DOMAIN pm_curve}
MomentOf(pm_curve) == {pm_curve[k][2] : k \in DOMAIN pm_curve}
MinOf(S) == CHOOSE x \in S : \A y \in S : x <= y

\* mutant: an axial force outside the curve is accepted
check_pm_capacity_AcceptOutside(calc, P_u, M_u, pm_curve) ==
    IF SegmentsAt(calc, pm_curve, P_u) # {}
    THEN 100 * Abs(M_u) <= 105 * Abs(CapacityAt(calc, pm_curve, P_u))
    ELSE TRUE

\* check_pm_capacity(P_u, M_u, pm_curve) on a curve of at least one point.
\* "src": False above pm_curve[0][0] and below pm_curve[-1][0], else the
\* comparison at the first segment with P2 <= P_u <= P1, else False.
\* "phase4": the comparison at the first segment with min <= P_u <= max, else
\* P_min <= P_u <= P_max.
check_pm_capacity(calc, P_u, M_u, pm_curve) ==
    IF calc = "src"
    THEN IF P_u > pm_curve[1][1] \/ P_u < pm_curve[Len(pm_curve)][1] THEN FALSE
         ELSE IF SegmentsAt(calc, pm_curve, P_u) # {}
         THEN 100 * Abs(M_u) <= 105 * CapacityAt(calc, pm_curve, P_u)
         ELSE FALSE
    ELSE IF SegmentsAt(calc, pm_curve, P_u) # {}
         THEN 100 * Abs(M_u) <= 105 * Abs(CapacityAt(calc, pm_curve, P_u))
         ELSE MinOf(AxialOf(pm_curve)) <= P_u /\ P_u <= MaxOf(AxialOf(pm_curve))

\* _get_pm_capacity_at_axial(pm_curve, P_u): the capacity of the first
\* segment that holds P_u; outside the curve 0.0 in "src", the largest moment
\* of the curve in "phase4"
get_pm_capacity_at_axial(calc, pm_curve, P_u) ==
    IF SegmentsAt(calc, pm_curve, P_u) # {}
    THEN IF calc = "src" THEN CapacityAt(calc, pm_curve, P_u)
         ELSE Abs(CapacityAt(calc, pm_curve, P_u))
    ELSE IF calc = "src" THEN 0
    ELSE MaxOf({Abs(m) : m \in MomentOf(pm_curve)})

\* the curve that get_pm_curve(section_idx) returns: the one cached by
\* precompute_pm_curves or generated on a miss, with the default steel and
\* the default number of points
DefaultPoints == 50
CachedCurve(calc, section_idx) ==
    LET sec == get_by_index(section_idx).section
    IN generate_pm_curve(calc, sec.b, sec.h, DEFAULT_COL_AS, DefaultPoints)

\* self.pm_curves of a verifier once precompute_pm_curves has run
pm_curves ==
    [calc \in Calculators |->
        [idx \in DOMAIN Sections |-> CachedCurve(calc, idx)]]

\* the penalty in 1/1000: abs(mu) / M_capacity - 1.0
OverRatio(mu, M_capacity) == (1000 * Abs(mu)) \div M_capacity - 1000

\* check_column_capacity(section_idx, pu, mu) against pm_curve, the section's
\* curve, in 1/1000.
\* "src": 0.0 if check_pm_capacity(pu, abs(mu)) else the over ratio when
\* M_capacity > 1e-3, else 2.0.
\* "phase4": 0.0 if check_pm_capacity(abs(pu), abs(mu)) else
\* max(0.0, over ratio) * 2.0 when M_capacity > 0, else 1.0.
check_column_capacity(calc, pm_curve, pu, mu) ==
    IF calc = "src"
    THEN IF check_pm_capacity(calc, pu, Abs(mu), pm_curve) THEN 0
         ELSE LET M_capacity == get_pm_capacity_at_axial(calc, pm_curve, pu)
              IN IF M_capacity > 0 THEN OverRatio(mu, M_capacity) ELSE 2000
    ELSE IF check_pm_capacity(calc, Abs(pu), Abs(mu), pm_curve) THEN 0
         ELSE LET M_capacity == get_pm_capacity_at_axial(calc, pm_curve, Abs(pu))
              IN IF M_capacity > 0
                 THEN Max2(0, OverRatio(mu, M_capacity)) * 2
                 ELSE 1000

MaxIndex == 160

get_by_index_call ==
    /\ call = NoCall
    /\ \E idx \in -MaxIndex .. MaxIndex :
          call' = [op |-> "get_by_index", idx |-> idx, result |-> get_by_index(idx)]
    /\ UNCHANGED <<modelVars, evalVars, runVars>>

InitCalc ==
    /\ ModelInit
    /\ grid = RunGrid
    /\ singular = {}
    /\ NoOptimizer
    /\ call = NoCall

\* ---- the calls on the calculator: a curve is generated and demands are
\* checked against it before the caller lets go of it
MaxPoints == 3
ManyPoints == 1000
PointCounts == (1 .. MaxPoints) \cup {DefaultPoints}

generate_pm_curve_call ==
    /\ call = NoCall
    /\ \E calc \in Calculators, idx \in DOMAIN Sections,
          n \in PointCounts \cup {ManyPoints} :
          call' = [op |-> "generate_pm_curve", calc |-> calc, section_idx |-> idx,
                   num_points |-> n,
                   curve |-> generate_pm_curve(calc, Sections[idx].b, Sections[idx].h,
                                               DEFAULT_COL_AS, n)]
    /\ UNCHANGED <<modelVars, evalVars, runVars>>

\* the demands tried against a curve: its sampled points, a moment a tenth
\* above each, the middle of each segment, and axial forces just outside
OnCurve(c) == {c[k] : k \in DOMAIN c}
OverCurve(c) == {<<c[k][1], c[k][2] + c[k][2] \div 10 + 1>> : k \in DOMAIN c}
MidCurve(c) ==
    {<<(c[k][1] + c[k + 1][1]) \div 2, m>> :
        k \in 1..(Len(c) - 1), m \in {0, MaxOf(MomentOf(c))}}
OffCurve(c) ==
    {<<p, m>> : p \in {MaxOf(AxialOf(c)) + 1, MinOf(AxialOf(c)) - 1},
                m \in {0, MaxOf(MomentOf(c)) \div 2, 2 * MaxOf(MomentOf(c))}}
PmDemands(c) == OnCurve(c) \cup OverCurve(c) \cup MidCurve(c) \cup OffCurve(c)
ColumnDemands(c) == PmDemands(c) \cup {<<-d[1], d[2]>> : d \in OnCurve(c)}

check_pm_capacity_call ==
    /\ call.op = "generate_pm_curve"
    /\ call.num_points \in PointCounts
    /\ \E d \in PmDemands(call.curve) :
          call' = [op |-> "check_pm_capacity", calc |-> call.calc,
                   section_idx |-> call.section_idx, num_points |-> call.num_points,
                   curve |-> call.curve, P_u |-> d[1], M_u |-> d[2],
                   result |-> IF call.curve = <<>>
                              THEN [raised |-> TRUE, safe |-> FALSE]
                              ELSE [raised |-> FALSE,
                                    safe |-> check_pm_capacity(call.calc, d[1], d[2],
                                                               call.curve)]]
    /\ UNCHANGED <<modelVars, evalVars, runVars>>

check_column_capacity_call ==
    /\ call = NoCall
    /\ \E calc \in Calculators, idx \in DOMAIN Sections :
          LET pm_curve == pm_curves[calc][idx]
          IN \E d \in ColumnDemands(pm_curve) :
                call' = [op |-> "check_column_capacity", calc |-> calc,
                         section_idx |-> idx, curve |-> pm_curve,
                         pu |-> d[1], mu |-> d[2],
                         result |-> check_column_capacity(calc, pm_curve, d[1], d[2])]
    /\ UNCHANGED <<modelVars, evalVars, runVars>>

\* ---- check_topology_constraints on genotypes over every TopologyStride-th
\* section, and on the four genes that verify_comprehensive hands to it
TopologyStride == 7
TopologyIndices == {k \in DOMAIN Sections : k % TopologyStride = 0}
ComprehensiveGenes == <<30, 30, 40, 40>>

check_topology_constraints_call ==
    /\ call = NoCall
    /\ \E genes \in {[i \in 1..6 |-> IF i = 1 THEN g1 ELSE IF i = 3 THEN g3
                                     ELSE IF i = 6 THEN g6 ELSE 0] :
                        g1 \in TopologyIndices, g3 \in TopologyIndices,
                        g6 \in TopologyIndices}
                   \cup {ComprehensiveGenes} :
          call' = [op |-> "check_topology_constraints", genes |-> genes,
                   result |-> check_topology_constraints(genes)]
    /\ UNCHANGED <<modelVars, evalVars, runVars>>

\* ---- analyze(): the ElementForces record built from what the solver reports
\* for one element (get_element_results); the solver reports compression as
\* a negative axial force
MaxAxial == 2
OracleResults ==
    {[Nmax |-> hi, Nmin |-> lo] : hi \in -MaxAxial .. MaxAxial, lo \in -MaxAxial .. MaxAxial}

ElementForcesOf(element_type, results) ==
    [element_type |-> element_type,
     axial_max |-> results.Nmax,
     axial_min |-> results.Nmin]

analyze_extract_call ==
    /\ call = NoCall
    /\ \E element_type \in {"column", "beam"},
          results \in {r \in OracleResults : r.Nmin <= r.Nmax} :
          call' = [op |-> "analyze", results |-> results,
                   record |-> ElementForcesOf(element_type, results)]
    /\ UNCHANGED <<modelVars, evalVars, runVars>>

\* ---- StructureModel(grid).build_from_grid(), the first thing
\* FrameOptimizer.__init__ does with its grid: the lists of spans and of story
\* heights are taken as they come
NoGrid == [given |-> FALSE]

SpanLists ==
    UNION { [1..n -> {-SpanLength, 0, SpanLength}] : n \in 0..MaxSpans }

HeightLists ==
    UNION { [1..m -> {-StoryHeight, 0, StoryHeight}] : m \in 0..MaxStories }

GridInputs ==
    { [x_spans |-> xs, z_heights |-> zs] : xs \in SpanLists, zs \in HeightLists }

\* the only raise of build_from_grid is "if not self.grid"; a GridInput is a
\* plain dataclass whose fields are never inspected, so every GridInput
\* object passes and the three generators run their loops over it
build_from_grid(g) ==
    IF g = NoGrid
    THEN [raised |-> TRUE]
    ELSE [raised |-> FALSE,
          nodes |-> nodes(g),
          beams |-> beams(g),
          columns |-> columns(g),
          beam_groups |-> assign_beam_groups(g),
          column_groups |-> assign_column_groups(g)]

build_from_grid_call ==
    /\ call = NoCall
    /\ \E g \in GridInputs \cup {NoGrid} :
          call' = [op |-> "build_from_grid", grid |-> g,
                   result |-> build_from_grid(g)]
    /\ UNCHANGED <<modelVars, evalVars, runVars>>

\* ---- the two analysis entry points on a frame whose solve() may fail
\* get_uls_combinations(False, False) and the quasi-permanent combination
UlsCombinations == {"1.3G+1.5L", "1.2G+1.4Q", "1.35G+0.98Q"}
SlsQuasi == "G+0.4Q"

\* ElementForcesEnvelope(element_id, element_type, length): every force 0.0
ZeroEnvelope ==
    [M_uls_max |-> 0, M_uls_min |-> 0, V_uls_max |-> 0,
     N_uls_max |-> 0, N_uls_min |-> 0, M_sls |-> 0, controlling_combo |-> ""]

\* analyze(): ss.solve() is not guarded, its exception leaves analyze()
analyze_solve(g, bs, cs, sing) ==
    LET model == BuildAnastructModel(g, bs, cs)
    IN IF SolveFails(model, sing)
       THEN [raised |-> TRUE]
       ELSE [raised |-> FALSE, forces |-> AnalyzeForces(g, model)]

\* analyze_envelope(): one zero record per member, then every combination is
\* analysed inside try/except; a combination that raised is reported on the
\* console and skipped, the others are merged into the records.  The frame
\* of every combination has the same members and sections, only the loads
\* differ
analyze_envelope(g, bs, cs, sing) ==
    LET model == BuildAnastructModel(g, bs, cs)
        merged == IF SolveFails(model, sing)
                  THEN {}
                  ELSE UlsCombinations \cup {SlsQuasi}
    IN [raised |-> FALSE,
        envelope |-> [id \in BeamIds(g) \cup ColumnIds(g) |->
                        [start |-> ZeroEnvelope, merged |-> merged]]]

analyze_entry_call ==
    /\ call = NoCall
    /\ \E genes \in EvalPool, sing \in {{}, {0}, {MaxGene}},
          entry \in {"analyze", "analyze_envelope"} :
          LET bs == SetBeamSections(beam_groups, EmptyMap, genes)
              cs == SetColumnSections(column_groups, EmptyMap, genes)
          IN call' = [op |-> "analyze_entry", entry |-> entry,
                      solve_failed |->
                          SolveFails(BuildAnastructModel(grid, bs, cs), sing),
                      result |-> IF entry = "analyze"
                                 THEN analyze_solve(grid, bs, cs, sing)
                                 ELSE analyze_envelope(grid, bs, cs, sing)]
    /\ UNCHANGED <<modelVars, evalVars, runVars>>

\* ---- calculate_cost on the model of a grid, with the catalogue as it is and
\* with every cost_per_m of the catalogue multiplied by k
MaxScale == 3

calculate_cost_call ==
    /\ call = NoCall
    /\ \E db \in Calculators, g \in Grids, genes \in Genotypes,
          k \in {0, 1, MaxScale} :
          LET bgroups == assign_beam_groups(g)
              cgroups == assign_column_groups(g)
          IN call' = [op |-> "calculate_cost", db |-> db, grid |-> g,
                      genes |-> genes, k |-> k,
                      cost |-> calculate_cost(db, g, bgroups, cgroups, genes),
                      scaled_cost |->
                          CostOnDatabase(LAMBDA idx : k * CostPerM(db, idx),
                                         g, bgroups, cgroups, genes)]
    /\ UNCHANGED <<modelVars, evalVars, runVars>>

\* ---- fitness_func on the small frame and on a taller one, at the ends and
\* the start of the range of the penalty coefficient.  The solver is a black
\* box: it fails or not, and it reports the demand of the governing bottom
\* column, every other member being within its capacity
TallSpans == 3
TallStories == 12
TallGrid ==
    [x_spans |-> [i \in 1..TallSpans |-> SpanLength],
     z_heights |-> [j \in 1..TallStories |-> StoryHeight]]

\* demands at 0.1 kN below the pure compression of the curve, the moment a
\* multiple of the capacity there (as far as the integers reach)
NearCrushing(calc, pm_curve) ==
    LET pu == MaxOf(AxialOf(pm_curve)) - 1
        M_capacity == get_pm_capacity_at_axial(calc, pm_curve, pu)
    IN { <<pu, m * M_capacity>> :
            m \in {k \in {0, 1, 2, 325, 650} : k * M_capacity <= 2147483647 \div 1000} }

fitness_func_call ==
    /\ call = NoCall
    /\ \E db \in Calculators, g \in {RunGrid, TallGrid},
          genes \in {[i \in 1..6 |-> 0], [i \in 1..6 |-> SectionCount - 1]},
          coeff \in {CoeffScale \div 2, CoeffScale, 3 * CoeffScale},
          sing \in {{}, {0}} :
          LET bgroups == assign_beam_groups(g)
              cgroups == assign_column_groups(g)
              model == BuildAnastructModel(g,
                          SetBeamSections(bgroups, EmptyMap, genes),
                          SetColumnSections(cgroups, EmptyMap, genes))
              pm_curve == pm_curves[db][genes[3]]
          IN \E d \in NearCrushing(db, pm_curve) :
              LET total_penalty == check_column_capacity(db, pm_curve, d[1], d[2])
                                   + check_topology_constraints(genes)
              IN /\ total_penalty <= 2147483647 \div coeff
                 /\ call' = [op |-> "fitness_func", db |-> db,
                             genes |-> genes, pu |-> d[1], mu |-> d[2],
                             penalty_coeff |-> coeff,
                             total_penalty |-> total_penalty,
                             fitness |->
                               IF SolveFails(model, sing) THEN FailedFitness
                               ELSE OkFitness(
                                      calculate_cost(db, g, bgroups, cgroups, genes),
                                      coeff, total_penalty)]
    /\ UNCHANGED <<modelVars, evalVars, runVars>>

\* the caller has taken the result
call_return ==
    /\ call # NoCall
    /\ call' = NoCall
    /\ UNCHANGED <<modelVars, evalVars, runVars>>

NextCalc ==
    \/ get_by_index_call
    \/ generate_pm_curve_call
    \/ check_pm_capacity_call
    \/ check_column_capacity_call
    \/ check_topology_constraints_call
    \/ analyze_extract_call
    \/ build_from_grid_call
    \/ analyze_entry_call
    \/ calculate_cost_call
    \/ fitness_func_call
    \/ call_return

SpecCalc == InitCalc /\ [][NextCalc]_vars

\* ---- the adaptive parameters over the generations of one serial run:
\* run() sets them, every on_generation call adapts them when gen % 3 == 0.
\* Probabilities are in 1/10000, the diversity in hundredths
ProbScale == 10000
mutation_prob_min == 1000
mutation_prob_max == 5000
crossover_prob_min == 6000
crossover_prob_max == 9500
InitialMutationProb == 3000
InitialCrossoverProb == 8500

\* mutant: the lower limit of the mutation probability is not applied
AdaptMutationProb_NoLowerLimit(mutation_prob, diversity) ==
    IF diversity < 5
    THEN Min2((mutation_prob * 12) \div 10, mutation_prob_max)
    ELSE IF diversity > 30
    THEN (mutation_prob * 85) \div 100
    ELSE mutation_prob

\* diversity < 0.05: min(mutation_prob * 1.2, max); > 0.3: max(* 0.85, min)
AdaptMutationProb(mutation_prob, diversity) ==
    IF diversity < 5
    THEN Min2((mutation_prob * 12) \div 10, mutation_prob_max)
    ELSE IF diversity > 30
    THEN Max2((mutation_prob * 85) \div 100, mutation_prob_min)
    ELSE mutation_prob

\* 0.7 * crossover_prob + 0.3 * target, the target falling from the upper to
\* the lower limit with progress = gen / num_generations
AdaptCrossoverProb(crossover_prob, gen, budget) ==
    LET progress == (gen * ProbScale) \div budget
        target_crossover ==
            crossover_prob_max
            - ((crossover_prob_max - crossover_prob_min) * progress) \div ProbScale
    IN (7 * crossover_prob + 3 * target_crossover) \div 10

MaxBudget == 36
Budgets == {1, 3, MaxBudget}
FeasibleRatios ==
    {[feasible |-> 0, total |-> 0], [feasible |-> 0, total |-> 2],
     [feasible |-> 1, total |-> 2], [feasible |-> 2, total |-> 2]}
Diversities == {4, 5, 30, 31}

\* run(), serial mode: the parameters are set before the engine starts
run_adaptive_call ==
    /\ call = NoCall
    /\ \E budget \in Budgets :
          call' = [op |-> "run", gen |-> 0, num_generations |-> budget,
                   penalty_coeff |-> CoeffScale,
                   mutation_prob |-> InitialMutationProb,
                   crossover_prob |-> InitialCrossoverProb]
    /\ UNCHANGED <<modelVars, evalVars, runVars>>

\* on_generation of the next generation of that run
on_generation_adaptive_call ==
    /\ call # NoCall
    /\ call.op \in {"run", "on_generation"}
    /\ call.gen < call.num_generations
    /\ \E r \in FeasibleRatios, diversity \in Diversities :
          LET gen == call.gen + 1
          IN call' =
                IF gen % 3 = 0
                THEN [op |-> "on_generation", gen |-> gen,
                      num_generations |-> call.num_generations,
                      penalty_coeff |-> AdaptPenaltyCoeff(call.penalty_coeff, r),
                      mutation_prob |-> AdaptMutationProb(call.mutation_prob, diversity),
                      crossover_prob |->
                          AdaptCrossoverProb(call.crossover_prob, gen,
                                             call.num_generations)]
                ELSE [call EXCEPT !.op = "on_generation", !.gen = gen]
    /\ UNCHANGED <<modelVars, evalVars, runVars>>

NextAdapt ==
    \/ run_adaptive_call
    \/ on_generation_adaptive_call
    \/ call_return

SpecAdapt == InitCalc /\ [][NextAdapt]_vars

\* ======================================================================
\* Claims on StructureModel
\* ======================================================================

\* the gene of a group: [standard beam, roof beam, bottom column, standard
\* corner column, standard interior column, top column]
GeneOfGroup(name) ==
    CASE name = "standard" -> 1
      [] name = "roof" -> 2
      [] name = "bottom" -> 3
      [] name = "standard_corner" -> 4
      [] name = "standard_interior" -> 5
      [] name = "top" -> 6

\* C2: after every set_sections_by_groups call each beam id and each column id
\* has exactly one section index, the gene of its group in the most recent
\* genotype; the maps are those a fresh decode of that genotype gives, so
\* nothing of an earlier genotype remains.
C2_DecodeOverwritesAll ==
    last_op = "set_sections" =>
        /\ DOMAIN beam_sections = BeamIds(grid)
        /\ DOMAIN column_sections = ColumnIds(grid)
        /\ \A b \in BeamIds(grid) :
              beam_sections[b] = last_genes[GeneOfGroup(BeamGroupOf(grid, b))]
        /\ \A c \in ColumnIds(grid) :
              column_sections[c] = last_genes[GeneOfGroup(ColumnGroupOf(grid, c))]
        /\ beam_sections = SetBeamSections(beam_groups, EmptyMap, last_genes)
        /\ column_sections = SetColumnSections(column_groups, EmptyMap, last_genes)

\* a genotype with different genes per group decoded over an earlier, different
\* genotype, on a grid where all six groups have members
C2_Witness ==
    /\ last_op = "set_sections"
    /\ redecode = "other"
    /\ \A name \in DOMAIN column_groups : column_groups[name] # {}
    /\ \A name \in DOMAIN beam_groups : beam_groups[name] # {}
    /\ last_genes[3] # last_genes[6]
    /\ last_genes[4] # last_genes[5]
    /\ last_genes[1] # last_genes[2]

\* geometric position of a member, read from the node coordinates of its ends
TotalWidth(g) == SumSeq(g.x_spans)
TotalHeight(g) == SumSeq(g.z_heights)
ColumnFoot(g, c) == nodes(g)[columns(g)[c][1]]
ColumnHead(g, c) == nodes(g)[columns(g)[c][2]]

PositionGroupOfColumn(g, c) ==
    IF ColumnFoot(g, c)[2] = 0 THEN "bottom"
    ELSE IF ColumnHead(g, c)[2] = TotalHeight(g) THEN "top"
    ELSE IF ColumnFoot(g, c)[1] = 0 \/ ColumnFoot(g, c)[1] = TotalWidth(g)
         THEN "standard_corner"
    ELSE "standard_interior"

PositionGroupOfBeam(g, b) ==
    IF nodes(g)[beams(g)[b][1]][2] = TotalHeight(g) THEN "roof" ELSE "standard"

\* C3: on a grid with at least one span and two stories every column is in the
\* group of its geometric position (bottom = first story, top = highest story,
\* corner / interior by column line otherwise) and a beam is 'roof' exactly
\* at the top level.
C3_GroupsFollowPosition ==
    (num_spans(grid) >= 1 /\ num_stories(grid) >= 2) =>
        /\ \A c \in ColumnIds(grid) :
              ColumnGroupOf(grid, c) = PositionGroupOfColumn(grid, c)
        /\ \A b \in BeamIds(grid) :
              BeamGroupOf(grid, b) = PositionGroupOfBeam(grid, b)

\* C6: the forces analyze() returns are those of the section assignment in
\* effect at the call: every member's stiffness is that of its currently
\* assigned section.
C6_AnalyzeUsesCurrentAssignment ==
    last_op = "analyze" =>
        forces = AnalyzeForces(grid,
                    BuildAnastructModel(grid, beam_sections, column_sections))

\* ======================================================================
\* Claims on FrameOptimizer.fitness_func
\* ======================================================================

\* what an evaluation of `genes` on a model of its own works with
OwnBeamSections(genes) == SetBeamSections(beam_groups, EmptyMap, genes)
OwnColumnSections(genes) == SetColumnSections(column_groups, EmptyMap, genes)
OwnModel(genes) ==
    BuildAnastructModel(grid, OwnBeamSections(genes), OwnColumnSections(genes))
OwnFitness(genes) ==
    IF SolveFails(OwnModel(genes), singular) THEN FailedFitness
    ELSE OkFitness(
            calculate_cost(variant, grid, beam_groups, column_groups, genes),
            penalty_coeff,
            verify_all_elements(AnalyzeForces(grid, OwnModel(genes)),
                                OwnBeamSections(genes), OwnColumnSections(genes), weak)
            + check_topology_constraints(genes))

\* C1: with the thread pool, under every interleaving, an evaluation solves
\* the frame built from its own genotype's sections, verifies against its own
\* genotype's section maps, and returns the fitness that follows from them
\* alone.
C1_IsolatedEvaluation ==
    parallel =>
        \A t \in DOMAIN evals :
            /\ evals[t].forces # NoForces =>
                  evals[t].forces = AnalyzeForces(grid, OwnModel(evals[t].genes))
            /\ evals[t].read # NoRead =>
                  /\ evals[t].read.beam_sections = OwnBeamSections(evals[t].genes)
                  /\ evals[t].read.column_sections = OwnColumnSections(evals[t].genes)
            /\ evals[t].pc = "Scored" =>
                  evals[t].fitness = OwnFitness(evals[t].genes)

StepsDone(pc) ==
    CASE pc = "Idle" -> 0
      [] pc = "SectionsAssigned" -> 1
      [] pc = "ModelBuilt" -> 2
      [] pc = "Analyzed" -> 3
      [] pc = "Verified" -> 4
      [] pc = "Scored" -> 5

\* C5: every evaluation runs assign, analyze, verify, score once each and in
\* this order: at each position the steps run so far are exactly the steps
\* before that position, each once; an evaluation that has returned either
\* ran all of them and returned a computed fitness, or stopped after a failed
\* step and returned the minimal fitness; nothing is returned before.
C5_LinearEvaluation ==
    \A t \in DOMAIN evals :
        LET e == evals[t]
        IN /\ e.pc # "Scored" =>
                /\ e.steps = Prefix(EvalSteps, StepsDone(e.pc))
                /\ e.fitness = NoFitness
           /\ e.pc = "Scored" =>
                \/ e.steps = EvalSteps /\ e.fitness.status = "ok"
                \/ /\ \E n \in 1..(Len(EvalSteps) - 1) : e.steps = Prefix(EvalSteps, n)
                   /\ e.fitness = FailedFitness

\* one evaluation has run all steps and another has stopped at a failed analysis
C5_Witness ==
    \E t, u \in DOMAIN evals :
        /\ evals[t].pc = "Scored" /\ evals[t].steps = EvalSteps
        /\ evals[u].pc = "Scored" /\ evals[u].fitness = FailedFitness

\* ======================================================================
\* Claims on FrameOptimizer.run
\* ======================================================================

\* C4: a failure of the analysis oracle never leaves run() as an exception,
\* neither from a fitness evaluation nor from the final analysis of the best
\* genotype; an evaluation whose analysis failed has returned the minimal
\* fitness.
C4_AnalysisFailureContained ==
    /\ result # Raised("analysis")
    /\ \A t \in DOMAIN evals :
          (evals[t].pc = "Scored" /\ evals[t].steps # EvalSteps) =>
              evals[t].fitness = FailedFitness

\* C7: without the thread pool already, the fitness recorded for the genotype
\* run() returns is at least the fitness the engine recorded for any
\* individual of any generation.
C7_ReturnedIsBestSeen ==
    (~parallel /\ run_pc = "Done" /\ result.status = "returned") =>
        FitnessLeq(best_recorded, result.fitness)

\* C8: (phase4 optimizer, engine parameters accepted) a run that has ended
\* has executed exactly num_generations generations and has returned an
\* OptimizationResult normally.
C8_RunReturnsAfterAllGenerations ==
    (variant = "phase4" /\ NumParentsMating(variant, sol_per_pop) <= sol_per_pop
        /\ run_pc = "Done") =>
        /\ generations_completed = num_generations
        /\ result.status = "returned"

\* the coefficient the claim asks for after a generation with feasible ratio r
C9_Expected(coeff, r) ==
    LET ratio_above == r.total > 0 /\ r.feasible * 10 > r.total * 7
        ratio_below == r.total = 0 \/ r.feasible * 10 < r.total * 2
        c == IF ratio_above THEN (coeff * 9) \div 10
             ELSE IF ratio_below THEN (coeff * 11) \div 10
             ELSE coeff
    IN IF c < CoeffScale \div 2 THEN CoeffScale \div 2
       ELSE IF c > 3 * CoeffScale THEN 3 * CoeffScale
       ELSE c

\* a generation callback ends with this step
CallbackEnds == run_pc # "AfterCallback" /\ run_pc' = "AfterCallback"

\* the individuals of a population whose own evaluation has zero violation
OwnPenalty(genes) ==
    verify_all_elements(AnalyzeForces(grid, OwnModel(genes)),
                        OwnBeamSections(genes), OwnColumnSections(genes), weak)
    + check_topology_constraints(genes)
FeasibleIn(pop) ==
    {i \in DOMAIN pop :
        ~SolveFails(OwnModel(pop[i]), singular) /\ OwnPenalty(pop[i]) = 0}
PopulationRatio == [feasible |-> Cardinality(FeasibleIn(population)), total |-> sol_per_pop]

\* C9 as stated: in serial and in parallel mode alike, the callback of a
\* generation g with g mod 3 = 0 leaves the penalty coefficient multiplied
\* by 0.9 / 1.1 / 1 according to the generation's feasible ratio (that of the
\* evaluation counters or that of the population) and clamped; the callback
\* of any other generation leaves it unchanged.
C9_AdaptsInEveryMode ==
    [][CallbackEnds =>
        IF generations_completed % 3 = 0
        THEN penalty_coeff' \in {C9_Expected(penalty_coeff, Ratio),
                                 C9_Expected(penalty_coeff, PopulationRatio)}
        ELSE penalty_coeff' = penalty_coeff]_vars

\* C9, amended: without the thread pool the callback of a generation g with
\* g mod 3 = 0 leaves the penalty coefficient multiplied by 0.9 / 1.1 / 1
\* according to the feasible ratio it recorded for the generation and clamped
\* to [0.5, 3.0]; with the thread pool no callback changes the coefficient;
\* the callback of a generation with g mod 3 # 0 leaves it unchanged, and so
\* does every step between run()'s reset and its end.
C9_AdaptsInSerialModeOnly ==
    [][/\ CallbackEnds =>
            IF ~parallel /\ generations_completed % 3 = 0
            THEN /\ Len(feasible_ratio_history') = generations_completed
                 /\ penalty_coeff' =
                        C9_Expected(penalty_coeff,
                                    feasible_ratio_history'[generations_completed])
            ELSE penalty_coeff' = penalty_coeff
       /\ (~CallbackEnds /\ run_pc # "NotStarted") => penalty_coeff' = penalty_coeff]_vars

\* a serial run after the callback of generation 3 that lowered the coefficient
C9_Witness ==
    /\ ~parallel
    /\ run_pc = "AfterCallback"
    /\ generations_completed = 3
    /\ penalty_coeff = (CoeffScale * 9) \div 10

\* C10: the feasible ratio recorded for generation g is the number of
\* individuals of generation g's population with zero violation divided by
\* the population size.
C10_RecordedRatioIsPopulationRatio ==
    (~parallel /\ run_pc = "AfterCallback") =>
        /\ Len(feasible_ratio_history) = generations_completed
        /\ LET r == feasible_ratio_history[generations_completed]
           IN IF r.total = 0 THEN PopulationRatio.feasible = 0
              ELSE r.feasible * PopulationRatio.total = PopulationRatio.feasible * r.total

\* ======================================================================
\* Claims on repeated runs
\* ======================================================================

\* C11: a second run on the same optimizer with the same grid, seed (the same
\* draws of the engine), generation budget, population size and evaluation
\* mode returns the genes and the cost of the first run and records the same
\* cost history and the same feasible-ratio history.
C11_SameArgumentsSameRun ==
    (held # NoHeld /\ held.same_optimizer /\ run_pc = "Done" /\ result.status = "returned") =>
        /\ result.genes = held.result.genes
        /\ result.cost = held.result.cost
        /\ result.cost_history = held.result.cost_history
        /\ result.feasible_ratio_history = held.result.feasible_ratio_history

\* the cost difference the self-test accepts: below 100 yuan (costs in 0.001 yuan)
ConsistentCostDifference == 100 * 1000

\* C12: a run in the thread pool and a serial run with the same grid, seed,
\* generation budget and population size return the same best genotype and
\* costs that differ by less than 100.
C12_ParallelMatchesSerial ==
    (held # NoHeld /\ ~held.same_optimizer /\ run_pc = "Done" /\ result.status = "returned") =>
        /\ result.genes = held.result.genes
        /\ result.cost - held.result.cost < ConsistentCostDifference
        /\ held.result.cost - result.cost < ConsistentCostDifference

\* C13: whatever is done after run() has returned, the OptimizationResult
\* the caller holds reads as it did when it was returned: same genes, cost,
\* forces and history lists.
C13_HeldResultUnchanged ==
    held # NoHeld => HeldResult = held.result

\* ======================================================================
\* Claims on the shared read-only resources
\* ======================================================================

\* C14: from the construction of the optimizer on, through every fitness
\* evaluation of a run, the P-M curve cache holds a curve for every catalog
\* index and no get_pm_curve lookup has missed it (so no evaluation has
\* written to the cache).
C14_CacheFilledBeforeSearch ==
    /\ \A idx \in 0 .. SectionCount - 1 : idx \in pm_cache
    /\ \A idx \in pm_cache : idx \in 0 .. SectionCount - 1
    /\ pm_missed = {}

\* a generation's evaluation has verified its columns
C14_Witness ==
    /\ run_pc = "GenerationFitness"
    /\ \E t \in DOMAIN evals :
          /\ evals[t].pc = "Scored"
          /\ evals[t].steps = EvalSteps
    /\ pm_missed = {}

\* ======================================================================
\* Claims on the calculation functions
\* ======================================================================

\* C15: for every integer i, negative, zero or at least the catalog size,
\* get_by_index(i) raises nothing and returns the section stored at the index
\* k in 0..size-1 with i - k a multiple of the size; its width is a multiple
\* of 50 in [200, 500] and its depth a multiple of 50 in [300, 800].
C15_CatalogTotal ==
    call.op = "get_by_index" =>
        /\ ~call.result.raised
        /\ \E k \in 0 .. SectionCount - 1 :
              /\ \E q \in -MaxIndex .. MaxIndex : call.idx = q * SectionCount + k
              /\ call.result.section = Sections[k]
        /\ call.result.section.b \in 200 .. 500
        /\ call.result.section.b % 50 = 0
        /\ call.result.section.h \in 300 .. 800
        /\ call.result.section.h % 50 = 0

\* a negative index has been looked up
C15_Witness ==
    /\ call.op = "get_by_index"
    /\ call.idx < 0
    /\ ~call.result.raised

\* ======================================================================
\* Claims on the topology
\* ======================================================================

\* the x of column line c (from 0) and the z of level s (0 = ground)
LineX(g, c) == SumSeq(Prefix(g.x_spans, c))
LevelZ(g, s) == SumSeq(Prefix(g.z_heights, s))
BeamLeft(g, b) == nodes(g)[beams(g)[b][1]]
BeamRight(g, b) == nodes(g)[beams(g)[b][2]]

\* C16: the topology built from a grid has (n_spans+1)(n_stories+1) nodes,
\* beams 1..num_beams numbered story by story from left to right (each id
\* follows the one before it in that order), then the columns numbered column
\* line by column line from bottom to top; a beam
\* joins two horizontally adjacent nodes of one level above ground, a column
\* two vertically adjacent nodes of one column line, and _get_beam_id /
\* _get_column_id give the id of the member at the position; every member is
\* the member at one position, so the two last conjuncts speak of all of them.
C16_TopologyNumbering ==
    LET g == grid
        n == num_spans(g)
        m == num_stories(g)
    IN /\ DOMAIN nodes(g) = 1 .. (n + 1) * (m + 1)
       /\ Cardinality({nodes(g)[i] : i \in DOMAIN nodes(g)}) = (n + 1) * (m + 1)
       /\ DOMAIN beams(g) = 1 .. n * m
       /\ DOMAIN columns(g) = (n * m + 1) .. (n * m + (n + 1) * m)
       /\ DOMAIN beams(g) = {get_beam_id(g, c, s) : c \in 0 .. n - 1, s \in 0 .. m - 1}
       /\ \A b1 \in 1 .. n * m - 1 :
             LET b2 == b1 + 1
             IN \/ BeamLeft(g, b1)[2] < BeamLeft(g, b2)[2]
                \/ /\ BeamLeft(g, b1)[2] = BeamLeft(g, b2)[2]
                   /\ BeamLeft(g, b1)[1] < BeamLeft(g, b2)[1]
       /\ DOMAIN columns(g) = {get_column_id(g, c, s) : c \in 0 .. n, s \in 0 .. m - 1}
       /\ \A k1 \in (n * m + 1) .. (n * m + (n + 1) * m - 1) :
             LET k2 == k1 + 1
             IN \/ ColumnFoot(g, k1)[1] < ColumnFoot(g, k2)[1]
                \/ /\ ColumnFoot(g, k1)[1] = ColumnFoot(g, k2)[1]
                   /\ ColumnFoot(g, k1)[2] < ColumnFoot(g, k2)[2]
       /\ \A c \in 0 .. n, s \in 0 .. m - 1 :
             LET k == get_column_id(g, c, s)
             IN /\ k \in DOMAIN columns(g)
                /\ ColumnFoot(g, k) = <<LineX(g, c), LevelZ(g, s)>>
                /\ ColumnHead(g, k) = <<LineX(g, c), LevelZ(g, s + 1)>>
       /\ \A c \in 0 .. n - 1, s \in 0 .. m - 1 :
             LET b == get_beam_id(g, c, s)
             IN /\ b \in DOMAIN beams(g)
                /\ BeamLeft(g, b) = <<LineX(g, c), LevelZ(g, s + 1)>>
                /\ BeamRight(g, b) = <<LineX(g, c + 1), LevelZ(g, s + 1)>>

\* the solver model of a frame with several spans and stories has been built
C16_Witness ==
    /\ num_spans(grid) >= 2
    /\ num_stories(grid) >= 2
    /\ last_op = "build"
    /\ ss # NoModel
    /\ DOMAIN ss.as_elem_map = BeamIds(grid) \cup ColumnIds(grid)

\* ======================================================================
\* Claims on the column check and the P-M curve
\* ======================================================================

\* C17: check_column_capacity returns 0 exactly when check_pm_capacity accepts
\* (axial demand, moment demand) against the section's curve, and a strictly
\* positive violation whenever it rejects it, also when the axial demand lies
\* outside the axial range of the curve.
C17_PenaltyMatchesContainment ==
    call.op = "check_column_capacity" =>
        LET accepted == check_pm_capacity(call.calc, call.pu, call.mu, call.curve)
        IN /\ accepted => call.result = 0
           /\ ~accepted => call.result > 0

\* C18: check_pm_capacity accepts every sampled point (P_k, M_k) of a curve
\* that generate_pm_curve returned.
C18_SampledPointsContained ==
    (call.op = "check_pm_capacity" /\ <<call.P_u, call.M_u>> \in OnCurve(call.curve))
        => (~call.result.raised /\ call.result.safe)

\* an inner point of a curve with a moment has been checked, in each calculator
C18_Witness ==
    /\ call.op = "check_pm_capacity"
    /\ call.calc = "phase4"
    /\ call.num_points = DefaultPoints
    /\ \E k \in 2..(Len(call.curve) - 1) : call.curve[k] = <<call.P_u, call.M_u>>
    /\ call.M_u > 0
    /\ call.result.safe

\* C19: for an axial demand strictly above the largest or strictly below the
\* smallest axial force of the curve, check_pm_capacity returns False for
\* every moment demand and does not raise.
C19_OutsideAxialRejected ==
    (/\ call.op = "check_pm_capacity"
     /\ \/ call.P_u > MaxOf(AxialOf(call.curve))
        \/ call.P_u < MinOf(AxialOf(call.curve)))
        => (~call.result.raised /\ ~call.result.safe)

\* a demand without moment just above the largest axial force has been rejected
C19_Witness ==
    /\ call.op = "check_pm_capacity"
    /\ call.P_u = MaxOf(AxialOf(call.curve)) + 1
    /\ call.M_u = 0
    /\ ~call.result.raised
    /\ ~call.result.safe

\* C20: every curve that generate_pm_curve returns, for every catalog section
\* and every requested number of points, lists its points in strictly
\* decreasing axial force.
C20_AxialStrictlyDecreasing ==
    call.op = "generate_pm_curve" =>
        \A k \in 1..(Len(call.curve) - 1) : call.curve[k][1] > call.curve[k + 1][1]

\* ======================================================================
\* Claims on the total penalty
\* ======================================================================

\* the members of the forces map whose section the demand exceeds, each once
OverstressedMembers(f, bs, cs, wk) ==
    {id \in DOMAIN f.members :
        IF f.members[id].element_type = "beam"
        THEN Get(bs, id, VerifyDefaultBeam) \in wk
        ELSE Get(cs, id, VerifyDefaultColumn) \in wk}

\* what verify_all_elements returned to the evaluation t that stands after it
VerifyReturned(t) ==
    verify_all_elements(evals[t].forces, evals[t].read.beam_sections,
                        evals[t].read.column_sections, weak)
MemberSum(t) ==
    OverstressPenalty *
        Cardinality(OverstressedMembers(evals[t].forces, evals[t].read.beam_sections,
                                        evals[t].read.column_sections, weak))

\* C21 as stated: the total penalty that verify_all_elements returns is the
\* sum over every member of the forces map, counted once, of the member's
\* violation, plus the topology violation of the genotype.
C21_VerifyAllAddsTopology ==
    \A t \in DOMAIN evals :
        evals[t].pc = "Verified" =>
            VerifyReturned(t) = MemberSum(t) + check_topology_constraints(evals[t].genes)

\* C21 amended: verify_all_elements returns the sum over every member of the
\* forces map, counted once, of the member's violation; fitness_func adds the
\* topology violation of the genotype to it, and that sum is the total
\* penalty of the evaluation.
C21_TopologyAddedByFitness ==
    \A t \in DOMAIN evals :
        evals[t].pc = "Verified" =>
            /\ VerifyReturned(t) = MemberSum(t)
            /\ evals[t].total_penalty
                  = MemberSum(t) + check_topology_constraints(evals[t].genes)

\* an evaluation with overstressed members and a topology violation is verified
C21_Witness ==
    \E t \in DOMAIN evals :
        /\ evals[t].pc = "Verified"
        /\ MemberSum(t) > 0
        /\ check_topology_constraints(evals[t].genes) > 0

\* the area of the section that gene k of the call at hand decodes to
GeneArea(k) ==
    LET sec == get_by_index(call.genes[k]).section IN sec.b * sec.h

C23_AxialCompressionPositive ==
    call.op = "analyze" =>
        {call.record.axial_max, call.record.axial_min}
            = {-call.results.Nmax, -call.results.Nmin}

\* ======================================================================
\* Claims on the returned cost
\* ======================================================================

\* the cost of the frame as it stands decoded, member by member, without penalty
DecodedCost ==
    LET avg_beam_length == (SumSeq(grid.x_spans) \div Len(grid.x_spans)) \div 100
        avg_col_length == (SumSeq(grid.z_heights) \div Len(grid.z_heights)) \div 100
    IN SumFn([id \in BeamIds(grid) |-> CostPerM(variant, beam_sections[id]) * avg_beam_length])
       + SumFn([id \in ColumnIds(grid) |->
                    CostPerM(variant, column_sections[id]) * avg_col_length])

Malformed(g) ==
    \/ Len(g.x_spans) = 0
    \/ Len(g.z_heights) = 0
    \/ \E i \in DOMAIN g.x_spans : g.x_spans[i] <= 0
    \/ \E j \in DOMAIN g.z_heights : g.z_heights[j] <= 0

\* C25: building the model from a malformed grid (no spans, no stories, or a
\* span or story height that is not positive) raises at construction
C25_MalformedGridRaises ==
    (call # NoCall /\ call.op = "build_from_grid" /\ call.grid # NoGrid
        /\ Malformed(call.grid))
        => call.result.raised

\* ======================================================================
\* Claims on a failed solve
\* ======================================================================

\* C26: when the solver fails, neither analyze() nor analyze_envelope()
\* returns force records; the failure reaches the caller
C26_SolveFailureReachesCaller ==
    (call # NoCall /\ call.op = "analyze_entry" /\ call.solve_failed)
        => call.result.raised

\* ======================================================================
\* Claims on the cost
\* ======================================================================

BeamGroupNames == {"standard", "roof"}
ColumnGroupNames == {"bottom", "standard_corner", "standard_interior", "top"}

\* the mean member length of a kind, in 0.1 m
AverageLength(lengths) == (SumSeq(lengths) \div Len(lengths)) \div 100

RECURSIVE SumOver(_, _)
SumOver(S, f) ==
    IF S = {} THEN 0
    ELSE LET x == CHOOSE y \in S : TRUE
         IN f[x] + SumOver(S \ {x}, f)

\* unit cost of the group's section x members of the group x average length
GroupTerm(db, g, genes, name) ==
    CostPerM(db, genes[GeneOfGroup(name)])
    * (IF name \in BeamGroupNames
       THEN Cardinality(assign_beam_groups(g)[name])
       ELSE Cardinality(assign_column_groups(g)[name]))
    * (IF name \in BeamGroupNames
       THEN AverageLength(g.x_spans)
       ELSE AverageLength(g.z_heights))

\* C27: calculate_cost is the sum over the six groups of unit cost x member
\* count x average length, the counts of the beam groups add up to the
\* number of beams and those of the column groups to the number of columns,
\* the cost is never negative, and with every unit cost multiplied by k the
\* cost is k times as large
C27_CostLinear ==
    (call # NoCall /\ call.op = "calculate_cost") =>
        LET g == call.grid
            names == BeamGroupNames \cup ColumnGroupNames
        IN /\ call.cost =
                SumOver(names, [n \in names |-> GroupTerm(call.db, g, call.genes, n)])
           /\ SumOver(BeamGroupNames,
                      [n \in BeamGroupNames |-> Cardinality(assign_beam_groups(g)[n])])
                = num_beams(g)
           /\ SumOver(ColumnGroupNames,
                      [n \in ColumnGroupNames |-> Cardinality(assign_column_groups(g)[n])])
                = num_columns(g)
           /\ call.cost >= 0
           /\ call.scaled_cost = call.k * call.cost

C27_Witness ==
    /\ call # NoCall
    /\ call.op = "calculate_cost"
    /\ call.k > 1
    /\ call.cost > 0
    /\ num_stories(call.grid) >= 3
    /\ num_spans(call.grid) >= 2
    /\ call.genes[6] # call.genes[1]

\* ======================================================================
\* Claims on the fitness of a failed evaluation
\* ======================================================================

\* floor of the square root
Isqrt(n) == CHOOSE r \in 0..46340 : r * r <= n /\ (r + 1) * (r + 1) > n

\* 1 / (F + 1e-9) <= 1e-12 holds when F >= 1e12; with F = cost * factor^2,
\* cost in yuan and factor = 1 + penalty_coeff * penalty, this is certain
\* when floor(factor) * floor(sqrt(floor(cost))) >= 1e6
AtOrBelowFailed(f) ==
    LET factor == f.x \div CoeffScale
        cost == f.cost \div 1000
    IN \/ (cost >= 1 /\ factor >= 1000000)
       \/ (factor < 1000000 /\ factor * Isqrt(cost) >= 1000000)

\* C28: the fitness 1e-12 of a failed evaluation is strictly lower than the
\* fitness of every evaluation whose analysis succeeded
C28_FailedStrictlyLowest ==
    (call # NoCall /\ call.op = "fitness_func" /\ call.fitness.status = "ok")
        => ~AtOrBelowFailed(call.fitness)

\* ======================================================================
\* Claims on the adaptive parameters
\* ======================================================================

\* C29: at every point of a run the penalty coefficient is within [0.5, 3.0],
\* the mutation probability within [0.10, 0.50] and the crossover probability
\* within [0.60, 0.95]
C29_AdaptiveParametersInRange ==
    (call # NoCall /\ call.op \in {"run", "on_generation"}) =>
        /\ CoeffScale \div 2 <= call.penalty_coeff
        /\ call.penalty_coeff <= 3 * CoeffScale
        /\ mutation_prob_min <= call.mutation_prob
        /\ call.mutation_prob <= mutation_prob_max
        /\ crossover_prob_min <= call.crossover_prob
        /\ call.crossover_prob <= crossover_prob_max

\* both limits of a parameter have been met in the course of one run
C29_Witness ==
    /\ call # NoCall
    /\ call.op = "on_generation"
    /\ call.gen = MaxBudget
    /\ call.penalty_coeff = 3 * CoeffScale
    /\ call.mutation_prob = mutation_prob_min
    /\ call.crossover_prob < InitialCrossoverProb

\* ======================================================================
\* Claims on the state a run starts from
\* ======================================================================

\* run() passes its reset and hands the initial population to the engine
RunStarts == run_pc = "NotStarted" /\ run_pc' # "NotStarted"

\* C30: every run() on a FrameOptimizer, the first and every later one, starts
\* with empty histories, the penalty coefficient at 1.0 and the feasibility
\* counters at 0
C30_RunStartsFromInitialState ==
    [][RunStarts =>
        /\ fitness_history' = <<>>
        /\ cost_history' = <<>>
        /\ feasible_ratio_history' = <<>>
        /\ penalty_coeff' = CoeffScale
        /\ current_gen_feasible' = 0
        /\ current_gen_total' = 0]_vars

====
